---- MODULE Spec2Model ----
(***************************************************************************)
(* State-machine model of quby.core.Validator (src/src/core.ts) driven by  *)
(* the validate methods of the AST nodes (src/Quby/src/ast.ts).            *)
(*                                                                         *)
(* One validator session: programs are submitted with validate(), the AST  *)
(* of a program calls back into the validator node by node (each node's    *)
(* validate is one action, the open nodes are kept in ctx), and            *)
(* finalizeProgram() runs endValidate and, without errors, generateCode.   *)
(***************************************************************************)
EXTENDS Integers, Sequences, FiniteSets, TLC

(***************************************************************************)
(* Bounds of the model.                                                    *)
(***************************************************************************)
MaxSubmissions == 2
MaxDepth == 2
MaxErrors == 1
MaxParseErrors == 2
MaxBlocks == 2
MaxCalls == 2
MaxCallbacks == 2
MaxLines == 2
MaxArity == 1

VarNames == {"x", "y"}
FunNames == {"f", "m"}
FieldNames == {"@v"}
CallNames == {"f", "g"}
ClassNames == {"A", "B"}
\* the name of a core class: its declaration is an ExtensionClassDefinition
CoreClassNames == {"Array"}
AllClassNames == ClassNames \cup CoreClassNames
NoSuper == "none"
SuperNames == {NoSuper} \cup ClassNames
UndeclaredClassNames == {"C"}
ParamSets(V) == {{}} \cup {{n} : n \in V}

(***************************************************************************)
(* Expression shapes a local-variable read can be nested in.               *)
(*   var        Variable                                                   *)
(*   op         Op(Variable, literal)           binary operator            *)
(*   single     SingleOp(Variable)              unary operator             *)
(*   paren      ExprParenthesis(Variable)                                  *)
(*   return     ReturnStmt(Variable)                                       *)
(*   cond       StmtBlock(condition Variable, no statements)               *)
(*   instanceof IsInstanceOf(Variable, Variable class name), not JS literal*)
(*   instanceofLiteral  IsInstanceOf(Variable, literal), not JS literal    *)
(***************************************************************************)
ReadShapes == {"var", "op", "single", "paren", "return", "cond",
               "instanceof", "instanceofLiteral"}

NoFun == [name |-> "null", type |-> "none"]
NoClass == "null"

\* The names of the sources programs are parsed from, NoName for the null
\* of lastErrorName and of a diagnostic without a source name.
SourceNames == {"a.q", "b.q"}
NoName == "null"
GlobalNames == {"$g"}
MethodNames == {"m", "n"}

VARIABLES
    pc,             \* "idle" | "validating" | the position inside
                    \* finalizeProgram | "finalized" | "hung"
    ctx,            \* the open AST nodes of the program being validated
    nsub,           \* number of validate() calls so far
    errors,         \* Validator.errors
    programs,       \* Validator.programs
    vars,           \* Validator.vars: the frames, innermost last
    isBlockArr,     \* Validator.isBlockArr
    funCount,       \* Validator.funCount
    currentFun,     \* Validator.currentFun
    funVars,        \* Validator.funVars: popped inner frames of currentFun
    preVars,        \* preVariables of the function declaration left last
    funs,           \* Validator.funs: call names of the declared functions
    classKeys,      \* Object.keys(Validator.classes), in insertion order
    classes,        \* Validator.classes: the ClassValidator of a call name
    currentClass,   \* Validator.currentClass
    currentClassV,  \* LateFunctionBinder.currentClassV
    calls,          \* the FunctionCall nodes validated so far, with
                    \* their isMethodFlag
    usedFunsStack,  \* Validator.usedFunsStack: indices into calls
    lateKeys,       \* Object.keys(LateFunctionBinder.classVals)
    lateFuns,       \* LateFunctionBinder.classFuns: per class the
                    \* buckets, in insertion order
    endValidateCallbacks,   \* Validator.endValidateCallbacks
    finIdx,         \* loop index of the finalize step in progress
    ran,            \* history: the callbacks run by endValidateInner
    output,         \* what finalizeProgram returned: "none" before it
                    \* returns, "" or "code"
    printed,        \* the programs printed by generateCode, in order
    frameInFun,     \* history: was frame i pushed by or after pushFunScope
    ev,             \* history: what the step taken last was, when it was
                    \* a read of a variable, a validate() that ran no node,
                    \* a throw that was caught or a call of getErrors;
                    \* finalizeProgram keeps it when it returns
    source,         \* the name of the source of the program being
                    \* validated: getSource().getName() of its symbols
    line,           \* the line of the node being validated
    lastErrorName,  \* Validator.lastErrorName
    globals,        \* Validator.globals
    usedGlobals,    \* Object.keys(Validator.usedGlobals)
    calledMethods,  \* Validator.calledMethods: the call names in
                    \* insertion order, each with the symbol of the call
                    \* stored last
    globalReads,    \* history: the globals that a node has read
    globalWrites,   \* history: the globals that a node has assigned to
    steps,          \* history: the steps of endValidateInner that have
                    \* completed, in order
    errBase,        \* history: the length of errors when the validate()
                    \* called last was entered
    search,         \* the last search for a missing function: what was
                    \* searched and what was found
    printer,        \* a Printer: its fields, and the history of the
                    \* calls made on it
    gen,            \* the position of generateCode, and what the
                    \* validator holds that it prints
    expr            \* an expression of operators: its nodes, and what
                    \* was done with it

scopeVars == <<vars, isBlockArr, funCount, currentFun, funVars, preVars, frameInFun>>
bindVars == <<classKeys, classes, currentClass, currentClassV, calls,
              usedFunsStack, lateKeys, lateFuns, endValidateCallbacks>>
finVars == <<finIdx, ran, output, printed, steps>>
symVars == <<source, line, errBase>>
globVars == <<globals, usedGlobals, calledMethods, globalReads,
              globalWrites>>
unitVars == <<search, printer, gen, expr>>
\* the state of a Validator and of the program it validates
validatorVars == <<pc, ctx, nsub, errors, programs, funs, ev, lastErrorName,
                   scopeVars, bindVars, finVars, symVars, globVars>>
vvars == <<pc, ctx, nsub, errors, programs, vars, isBlockArr, funCount,
           currentFun, funVars, preVars, funs, classKeys, classes,
           currentClass, currentClassV, calls, usedFunsStack, lateKeys,
           lateFuns, endValidateCallbacks, finIdx, ran, output, printed,
           frameInFun, ev, source, line, lastErrorName, globals,
           usedGlobals, calledMethods, steps, errBase, globalReads,
           globalWrites, search, printer, gen, expr>>

Ev(op, a, b) == [op |-> op, a |-> a, b |-> b]
NoEv == Ev("other", "", "")

(***************************************************************************)
(* Diagnostics.                                                            *)
(***************************************************************************)
\* The symbol of the node being validated, and no symbol.
Sym == [src |-> source, line |-> line]
NoSym == [src |-> NoName, line |-> -1]

\* The name parseErrorLine records after errs: a name that is handed in
\* becomes lastErrorName, and lastErrorName stands in for one that is not.
\* An entry recorded under lastErrorName repeats the name of the named
\* entry before it, so the last entry with a name tells lastErrorName.
lastNameOf(old, new, last) ==
    LET named == {i \in (Len(old) + 1)..Len(new) : new[i].name # NoName}
    IN  IF named = {} THEN last
        ELSE new[CHOOSE i \in named : \A j \in named : j <= i].name

\* Validator.parseErrorLine: one more entry at the end of errors.  site is
\* the index in calls of the FunctionCall the diagnostic is about, 0 for
\* another node.
parseErrorLine(errs, kind, ref, site, ln, name) ==
    Append(errs, [kind |-> kind, ref |-> ref, site |-> site,
                  name |-> IF name = NoName
                           THEN lastNameOf(errors, errs, lastErrorName)
                           ELSE name,
                  line |-> ln])

\* Validator.parseError(sym, msg) with a symbol
parseErrorSym(errs, kind, ref, site, sym) ==
    parseErrorLine(errs, kind, ref, site, sym.line, sym.src)

\* Validator.parseError(null, msg)
parseErrorNull(errs, kind) == parseErrorLine(errs, kind, "", 0, -1, NoName)

\* The diagnostic parseError leaves at the end of errors: the one of a
\* caught throw is reported with a null symbol, so under lastErrorName and
\* line -1, another one with the symbol of the node being validated.
Diag(kind, ref) ==
    IF kind = "crash"
    THEN [kind |-> kind, ref |-> ref, site |-> 0,
          name |-> lastErrorName, line |-> -1]
    ELSE [kind |-> kind, ref |-> ref, site |-> 0,
          name |-> source, line |-> line]

\* Validator.parseError for the node being validated, or with null for
\* a caught throw
parseError(errs, kind, ref) ==
    IF kind = "crash" THEN parseErrorNull(errs, kind)
    ELSE parseErrorSym(errs, kind, ref, 0, Sym)

\* parseError with the offset of the FunctionCall node calls[site]
parseErrorAt(errs, kind, ref, site) ==
    parseErrorSym(errs, kind, ref, site, calls[site].sym)

\* variant of hasErrors that overlooks a single diagnostic; C1 fails under it
hasErrorsButOne == Len(errors) > 1

hasErrors == Len(errors) > 0

(***************************************************************************)
(* Scope stack.  A scope state is the record of the five scope fields.     *)
(***************************************************************************)
Scope == [vars |-> vars, isBlockArr |-> isBlockArr, funCount |-> funCount,
          currentFun |-> currentFun, funVars |-> funVars,
          preVars |-> preVars, frameInFun |-> frameInFun]

isInsideFunIn(S) == S.currentFun # NoFun

\* variant of isInsideFun that never sees the enclosing function; C33
\* fails under it
isInsideFunNever == FALSE

isInsideFun == isInsideFunIn(Scope)

isInsideBlockIn(S) == S.isBlockArr[Len(S.isBlockArr)]

isInsideBlock == isInsideBlockIn(Scope)

\* variant of pushScope that counts the frame whether or not a function
\* is current; C36 fails under it
pushScopeAlwaysCounts(S) ==
    [S EXCEPT !.vars = Append(@, {}),
              !.isBlockArr = Append(@, FALSE),
              !.funCount = @ + 1,
              !.frameInFun = Append(@, isInsideFunIn(S))]

pushScope(S) ==
    [S EXCEPT !.vars = Append(@, {}),
              !.isBlockArr = Append(@, FALSE),
              !.funCount = IF isInsideFunIn(S) THEN @ + 1 ELSE @,
              !.frameInFun = Append(@, isInsideFunIn(S))]

\* Only called with no function current: the other branch throws.
pushFunScope(S, fun) ==
    [S EXCEPT !.currentFun = fun,
              !.funCount = @ + 1,
              !.vars = Append(@, {}),
              !.isBlockArr = Append(@, FALSE),
              !.frameInFun = Append(@, TRUE)]

pushBlockScope(S) ==
    LET T == pushScope(S)
    IN  [T EXCEPT !.isBlockArr[Len(T.isBlockArr)] = TRUE]

Front(s) == SubSeq(s, 1, Len(s) - 1)

RECURSIVE SetToSeq(_)
SetToSeq(A) ==
    IF A = {} THEN <<>>
    ELSE LET a == CHOOSE e \in A : TRUE IN <<a>> \o SetToSeq(A \ {a})

\* The pre-variables popScope adds when the function is left: for every
\* popped inner frame, in order, its keys that the root frame lacks.
RECURSIVE addPreVariables(_, _)
addPreVariables(fv, rootFVars) ==
    IF fv = <<>> THEN <<>>
    ELSE SetToSeq(Head(fv) \ rootFVars) \o addPreVariables(Tail(fv), rootFVars)

\* variant of popScope that hands the names of the popped frame to the
\* frame below; C3 fails under it
popScopeLeaking(S) ==
    LET n == Len(S.vars)
        top == S.vars[n]
        P == [S EXCEPT !.isBlockArr = Front(@),
                       !.vars = [i \in 1..(n - 1) |->
                                   IF i = n - 1 THEN S.vars[i] \cup top
                                   ELSE S.vars[i]],
                       !.frameInFun = Front(@)]
    IN  IF isInsideFunIn(S)
        THEN IF S.funCount - 1 <= 0
             THEN [P EXCEPT !.funCount = S.funCount - 1,
                            !.preVars = addPreVariables(S.funVars, top),
                            !.currentFun = NoFun,
                            !.funVars = <<>>]
             ELSE [P EXCEPT !.funCount = S.funCount - 1,
                            !.funVars = Append(@, top)]
        ELSE P

popScope(S) ==
    LET top == S.vars[Len(S.vars)]
        P == [S EXCEPT !.isBlockArr = Front(@),
                       !.vars = Front(@),
                       !.frameInFun = Front(@)]
    IN  IF isInsideFunIn(S)
        THEN IF S.funCount - 1 <= 0
             THEN [P EXCEPT !.funCount = S.funCount - 1,
                            !.preVars = addPreVariables(S.funVars, top),
                            !.currentFun = NoFun,
                            !.funVars = <<>>]
             ELSE [P EXCEPT !.funCount = S.funCount - 1,
                            !.funVars = Append(@, top)]
        ELSE P

assignVar(S, id) == [S EXCEPT !.vars[Len(S.vars)] = @ \cup {id}]

\* variant of containsVarStop that always scans down to the global frame;
\* C2 fails under it
containsVarStopAtZero(S) == 0

containsVarStop(S) ==
    IF isInsideFunIn(S) THEN Len(S.vars) - S.funCount ELSE 0

\* The loop runs over the 0-based indices Len-1 .. stop, here i = index + 1.
containsVarIn(S, id) ==
    \E i \in (containsVarStop(S) + 1)..Len(S.vars) : id \in S.vars[i]

containsVar(id) == containsVarIn(Scope, id)

containsLocalVarIn(S, id) == id \in S.vars[Len(S.vars)]

SetScope(S) ==
    /\ vars' = S.vars
    /\ isBlockArr' = S.isBlockArr
    /\ funCount' = S.funCount
    /\ currentFun' = S.currentFun
    /\ funVars' = S.funVars
    /\ preVars' = S.preVars
    /\ frameInFun' = S.frameInFun

(***************************************************************************)
(* Classes.  A ClassValidator is the record of the declared super class of *)
(* its header (NoSuper without an extends clause), the call names of its   *)
(* methods, the calls on this it keeps (one for a call name, with the      *)
(* symbol of the call kept last), the arities of its constructors, the     *)
(* symbol of the declaration it was made for and whether that is an        *)
(* ExtensionClassDefinition.                                               *)
(***************************************************************************)
RootClass == "Object"

NewClass(sup) == [sup |-> sup, funs |-> {}, usedFuns |-> <<>>, news |-> {},
                  sym |-> NoSym, ext |-> FALSE,
                  assignedFields |-> {}, usedFields |-> <<>>,
                  fieldReads |-> {}, fieldWrites |-> {}]

Range(s) == {s[i] : i \in 1..Len(s)}

isInsideClass == currentClass # NoClass

isInsideClassDefinition == isInsideClass /\ ~isInsideFun

\* ClassHeader.getSuperCallName: the root class without an extends clause
headerSuperCallName(sup) == IF sup = NoSuper THEN RootClass ELSE sup

\* ClassDefinition.getSuperCallName: null for a class naming itself;
\* ExtensionClassDefinition.getSuperCallName: the root class
getSuperCallName(K, c) ==
    IF K[c].ext THEN RootClass
    ELSE IF headerSuperCallName(K[c].sup) = c THEN NoClass
         ELSE headerSuperCallName(K[c].sup)

\* ClassValidator.hasFunInHierarchy.  The recursion has no guard against a
\* cycle of super classes: a walk that comes back to a class it left never
\* ends, which is the outcome "overflow" here.
RECURSIVE hasFunInHierarchyFrom(_, _, _, _, _)
hasFunInHierarchyFrom(K, keys, c, cn, seen) ==
    IF cn \in K[c].funs THEN "true"
    ELSE LET parentName == getSuperCallName(K, c)
         IN  IF parentName = NoClass THEN "false"
             ELSE IF parentName \notin Range(keys) THEN "false"
             ELSE IF parentName \in seen THEN "overflow"
             ELSE hasFunInHierarchyFrom(K, keys, parentName, cn,
                                        seen \cup {parentName})

hasFunInHierarchy(K, keys, c, cn) ==
    hasFunInHierarchyFrom(K, keys, c, cn, {c})

(***************************************************************************)
(* Validator.defineFun for a function or method declaration: the           *)
(* diagnostics it leaves.                                                  *)
(***************************************************************************)
defineFunErrors(errs, cn) ==
    IF currentClass # NoClass
    THEN IF cn \in classes[currentClass].funs
         THEN parseError(errs, "duplicateMethod", "")
         ELSE errs
    ELSE IF cn \in funs
         THEN parseError(errs, "funAlreadyDefined", "")
         ELSE errs

\* Validator.searchMissingFunAndError: one diagnostic in every branch.  The
\* call names of the model have one arity each and no get/set twin, so the
\* search finds no alternative.
searchMissingFunAndError(errs, cn, site, sym, strFunctionType) ==
    parseErrorSym(errs,
                  IF strFunctionType = "function" THEN "undefinedFunction"
                  ELSE "undefinedMethod",
                  cn, site, sym)

(***************************************************************************)
(* Variable.validate for a read that is no parameter: the diagnostics      *)
(* it leaves.                                                              *)
(***************************************************************************)
VariableValidateRead(errs, S, id) ==
    IF ~containsVarIn(S, id)
    THEN parseError(errs, "usedBeforeAssigned", id)
    ELSE errs

\* Variable.validate inside a parameter list: the name joins the top frame.
RECURSIVE validateParams(_, _, _)
validateParams(errs, S, ps) ==
    IF ps = <<>> THEN [errs |-> errs, S |-> S]
    ELSE LET id == Head(ps)
             e == IF containsLocalVarIn(S, id)
                  THEN parseError(errs, "parameterUsedTwice", "")
                  ELSE errs
         IN  validateParams(e, assignVar(S, id), Tail(ps))

(***************************************************************************)
(* validate(program, errors)                                               *)
(***************************************************************************)
\* variant of ValidateParseErrors that keeps the program for printing; C8
\* fails under it
ValidateParseErrorsKeepsProgram(n) ==
    /\ pc = "idle"
    /\ nsub < MaxSubmissions
    /\ nsub' = nsub + 1
    /\ errors' = errors \o
                   [i \in 1..n |-> [kind |-> "parse", ref |-> "", site |-> i,
                                    name |-> NoName, line |-> i]]
    /\ programs' = Append(programs, nsub + 1)
    /\ ev' = Ev("validateParseErrors", "", "")
    /\ UNCHANGED <<pc, ctx, funs>>
    /\ UNCHANGED scopeVars
    /\ UNCHANGED bindVars
    /\ UNCHANGED finVars
    /\ errBase' = Len(errors)
    /\ UNCHANGED <<source, line>>
    /\ UNCHANGED globVars
    /\ UNCHANGED unitVars
    /\ lastErrorName' = NoName

\* with n parse errors: one diagnostic each (site is the index of the
\* parse error in the list handed in, which is on line i), nothing else.
\* lastErrorName was cleared on entry: the diagnostics have no name.
ValidateParseErrors(n) ==
    /\ pc = "idle"
    /\ nsub < MaxSubmissions
    /\ nsub' = nsub + 1
    /\ errors' = errors \o
                   [i \in 1..n |-> [kind |-> "parse", ref |-> "", site |-> i,
                                    name |-> NoName, line |-> i]]
    /\ ev' = Ev("validateParseErrors", "", "")
    /\ UNCHANGED <<pc, ctx, programs, funs>>
    /\ UNCHANGED scopeVars
    /\ UNCHANGED bindVars
    /\ UNCHANGED finVars
    /\ errBase' = Len(errors)
    /\ UNCHANGED <<source, line>>
    /\ UNCHANGED globVars
    /\ UNCHANGED unitVars
    /\ lastErrorName' = NoName

\* without parse errors and without a program; strict is the value of
\* isStrictModeOn at the call.  lastErrorName was cleared on entry.
ValidateNoProgram(strict) ==
    /\ pc = "idle"
    /\ nsub < MaxSubmissions
    /\ nsub' = nsub + 1
    /\ errors' = IF Len(errors) = 0 /\ strict
                 THEN Append(errors, [kind |-> "noSource", ref |-> "",
                                      site |-> 0, name |-> NoName,
                                      line |-> -1])
                 ELSE errors
    /\ ev' = Ev("validateNoProgram", "", "")
    /\ UNCHANGED <<pc, ctx, programs, funs>>
    /\ UNCHANGED scopeVars
    /\ UNCHANGED bindVars
    /\ UNCHANGED finVars
    /\ errBase' = Len(errors)
    /\ UNCHANGED <<source, line>>
    /\ UNCHANGED globVars
    /\ UNCHANGED unitVars
    /\ lastErrorName' = NoName

\* variant of ValidateProgram that leaves lastErrorName as the submission
\* before left it; C15 fails under it
ValidateProgramKeepsName(src) ==
    /\ pc = "idle"
    /\ nsub < MaxSubmissions
    /\ nsub' = nsub + 1
    /\ pc' = "validating"
    /\ ctx' = <<>>
    /\ source' = src
    /\ line' = 1
    /\ errBase' = Len(errors)
    /\ ev' = NoEv
    /\ UNCHANGED <<errors, programs, funs, lastErrorName>>
    /\ UNCHANGED scopeVars
    /\ UNCHANGED bindVars
    /\ UNCHANGED finVars
    /\ UNCHANGED globVars
    /\ UNCHANGED unitVars

\* without parse errors: program.validate(this) starts for a program of
\* the source src
ValidateProgram(src) ==
    /\ pc = "idle"
    /\ nsub < MaxSubmissions
    /\ nsub' = nsub + 1
    /\ pc' = "validating"
    /\ ctx' = <<>>
    /\ source' = src
    /\ line' = 1
    /\ errBase' = Len(errors)
    /\ ev' = NoEv
    /\ UNCHANGED <<errors, programs, funs>>
    /\ UNCHANGED scopeVars
    /\ UNCHANGED bindVars
    /\ UNCHANGED finVars
    /\ UNCHANGED globVars
    /\ UNCHANGED unitVars
    /\ lastErrorName' = NoName

\* program.validate(this) returned: the program joins the print list
ProgramReturns ==
    /\ pc = "validating"
    /\ ctx = <<>>
    /\ pc' = "idle"
    /\ programs' = Append(programs, nsub)
    /\ ev' = NoEv
    /\ UNCHANGED <<ctx, nsub, errors, funs>>
    /\ UNCHANGED scopeVars
    /\ UNCHANGED bindVars
    /\ UNCHANGED finVars
    /\ UNCHANGED symVars
    /\ UNCHANGED globVars
    /\ UNCHANGED unitVars
    /\ lastErrorName' = lastNameOf(errors, errors', lastErrorName)

\* variant of NodeThrows that reports nothing; C9 fails under it
NodeThrowsSilently ==
    /\ pc = "validating"
    /\ pc' = "idle"
    /\ ctx' = <<>>
    /\ ev' = Ev("nodeThrows", "", "")
    /\ UNCHANGED <<nsub, errors, programs, funs>>
    /\ UNCHANGED scopeVars
    /\ UNCHANGED bindVars
    /\ UNCHANGED finVars
    /\ UNCHANGED symVars
    /\ UNCHANGED globVars
    /\ UNCHANGED unitVars
    /\ lastErrorName' = lastNameOf(errors, errors', lastErrorName)

\* a node throws: the catch of validate() reports the crash and returns
NodeThrows ==
    /\ pc = "validating"
    /\ pc' = "idle"
    /\ ctx' = <<>>
    /\ errors' = parseError(errors, "crash", "")
    /\ ev' = Ev("nodeThrows", "", "")
    /\ UNCHANGED <<nsub, programs, funs>>
    /\ UNCHANGED scopeVars
    /\ UNCHANGED bindVars
    /\ UNCHANGED finVars
    /\ UNCHANGED symVars
    /\ UNCHANGED globVars
    /\ UNCHANGED unitVars
    /\ lastErrorName' = lastNameOf(errors, errors', lastErrorName)

(***************************************************************************)
(* Nodes that open and close scopes.                                       *)
(***************************************************************************)
\* Function.validate up to the body
FunctionValidate(f, ps) ==
    /\ pc = "validating"
    /\ Len(ctx) < MaxDepth
    /\ LET fun == [name |-> f,
                   type |-> IF isInsideClass THEN "method" ELSE "function"]
           e1 == IF isInsideFun
                 THEN parseError(errors, "funWithinFun", "")
                 ELSE IF isInsideBlock
                      THEN parseError(errors, "funWithinBlock", "")
                      ELSE errors
           isOutFun == ~isInsideFun
           e2 == IF isOutFun THEN defineFunErrors(e1, f) ELSE e1
           S1 == IF isOutFun THEN pushFunScope(Scope, fun) ELSE Scope
           r == validateParams(e2, S1, SetToSeq(ps))
       IN  /\ Len(r.errs) <= MaxErrors
           /\ errors' = r.errs
           /\ funs' = IF isOutFun /\ ~isInsideClass
                      THEN funs \cup {f} ELSE funs
           /\ classes' = IF isOutFun /\ isInsideClass
                         THEN [classes EXCEPT ![currentClass].funs = @ \cup {f}]
                         ELSE classes
           /\ SetScope(r.S)
           /\ ctx' = Append(ctx, IF isOutFun THEN "fun" ELSE "nfun")
    /\ ev' = NoEv
    /\ UNCHANGED <<pc, nsub, programs>>
    /\ UNCHANGED <<classKeys, currentClass, currentClassV, calls,
                   usedFunsStack, lateKeys, lateFuns, endValidateCallbacks>>
    /\ UNCHANGED finVars
    /\ UNCHANGED symVars
    /\ UNCHANGED globVars
    /\ UNCHANGED unitVars
    /\ lastErrorName' = lastNameOf(errors, errors', lastErrorName)

\* Function.validate after the body
FunctionEnd ==
    /\ pc = "validating"
    /\ ctx # <<>>
    /\ ctx[Len(ctx)] \in {"fun", "nfun"}
    /\ SetScope(IF ctx[Len(ctx)] = "fun" THEN popScope(Scope) ELSE Scope)
    /\ ctx' = Front(ctx)
    /\ ev' = NoEv
    /\ UNCHANGED <<pc, nsub, errors, programs, funs>>
    /\ UNCHANGED bindVars
    /\ UNCHANGED finVars
    /\ UNCHANGED symVars
    /\ UNCHANGED globVars
    /\ UNCHANGED unitVars
    /\ lastErrorName' = lastNameOf(errors, errors', lastErrorName)

\* FunctionBlock.validate up to its statements
FunctionBlockValidate(ps) ==
    /\ pc = "validating"
    /\ Len(ctx) < MaxDepth
    /\ isInsideFun => Len(funVars) + funCount - 1 < MaxBlocks
    /\ LET r == validateParams(errors, pushBlockScope(Scope), SetToSeq(ps))
       IN  /\ Len(r.errs) <= MaxErrors
           /\ errors' = r.errs
           /\ SetScope(r.S)
    /\ ctx' = Append(ctx, "block")
    /\ ev' = NoEv
    /\ UNCHANGED <<pc, nsub, programs, funs>>
    /\ UNCHANGED bindVars
    /\ UNCHANGED finVars
    /\ UNCHANGED symVars
    /\ UNCHANGED globVars
    /\ UNCHANGED unitVars
    /\ lastErrorName' = lastNameOf(errors, errors', lastErrorName)

\* FunctionBlock.validate after its statements
FunctionBlockEnd ==
    /\ pc = "validating"
    /\ ctx # <<>>
    /\ ctx[Len(ctx)] = "block"
    /\ SetScope(popScope(Scope))
    /\ ctx' = Front(ctx)
    /\ ev' = NoEv
    /\ UNCHANGED <<pc, nsub, errors, programs, funs>>
    /\ UNCHANGED bindVars
    /\ UNCHANGED finVars
    /\ UNCHANGED symVars
    /\ UNCHANGED globVars
    /\ UNCHANGED unitVars
    /\ lastErrorName' = lastNameOf(errors, errors', lastErrorName)

(***************************************************************************)
(* Statements on local variables.                                          *)
(***************************************************************************)
\* Assignment(Variable id, literal): setAssignment, then Op.validate
\* validates the right side and the left side, which assigns.
AssignmentValidate(id) ==
    /\ pc = "validating"
    /\ SetScope(assignVar(Scope, id))
    /\ ev' = NoEv
    /\ UNCHANGED <<pc, ctx, nsub, errors, programs, funs>>
    /\ UNCHANGED bindVars
    /\ UNCHANGED finVars
    /\ UNCHANGED symVars
    /\ UNCHANGED globVars
    /\ UNCHANGED unitVars
    /\ lastErrorName' = lastNameOf(errors, errors', lastErrorName)

\* The diagnostics left by validating an expression of the given shape
\* around a read of id.
readShapeErrors(errs, S, id, shape) ==
    CASE shape \in {"var", "op", "single", "paren", "cond"} ->
            VariableValidateRead(errs, S, id)
      [] shape = "return" ->
            VariableValidateRead(
                IF ~isInsideFunIn(S) /\ ~isInsideBlockIn(S)
                THEN parseError(errs, "returnOutside", "")
                ELSE errs, S, id)
      [] shape = "instanceof" -> errs
      [] shape = "instanceofLiteral" ->
            parseError(errs, "expectingClassName", "")

ReadValidate(id, shape) ==
    /\ pc = "validating"
    /\ LET e == readShapeErrors(errors, Scope, id, shape)
       IN  /\ Len(e) <= MaxErrors
           /\ errors' = e
    /\ ev' = Ev("read", id, shape)
    /\ UNCHANGED <<pc, ctx, nsub, programs, funs>>
    /\ UNCHANGED scopeVars
    /\ UNCHANGED bindVars
    /\ UNCHANGED finVars
    /\ UNCHANGED symVars
    /\ UNCHANGED globVars
    /\ UNCHANGED unitVars
    /\ lastErrorName' = lastNameOf(errors, errors', lastErrorName)

(***************************************************************************)
(* Class declarations.                                                     *)
(***************************************************************************)
\* setHeader of the class declaration the ClassValidator was made for:
\* the header of the later declaration takes the place of its own
setHeader(K, c, sup) == [K EXCEPT ![c].sup = sup]

\* Validator.setClass: the class table after it, for a declaration that
\* is an ExtensionClassDefinition (ext) or a ClassDefinition
setClassTable(c, sup, ext) ==
    IF c \notin Range(classKeys)
    THEN [classes EXCEPT ![c] = [NewClass(sup) EXCEPT !.sym = Sym,
                                                     !.ext = ext]]
    ELSE IF classes[c].sup = NoSuper /\ sup # NoSuper
         THEN setHeader(classes, c, sup)
         ELSE classes

\* variant of setClassErrors that takes any two declared super classes of
\* a class for different ones; C19 fails under it
setClassErrorsAnySuper(errs, c, sup) ==
    LET e1 == IF currentClass # NoClass
              THEN parseError(errs, "classWithinClass", "")
              ELSE errs
    IN  IF /\ c \in Range(classKeys)
           /\ classes[c].sup # NoSuper
           /\ sup # NoSuper
        THEN parseError(e1, "superRedefined", "")
        ELSE e1

\* Validator.setClass: the diagnostics it leaves
setClassErrors(errs, c, sup) ==
    LET e1 == IF currentClass # NoClass
              THEN parseError(errs, "classWithinClass", "")
              ELSE errs
    IN  IF /\ c \in Range(classKeys)
           /\ classes[c].sup # NoSuper
           /\ sup # NoSuper
           /\ classes[c].sup # sup
        THEN parseError(e1, "superRedefined", "")
        ELSE e1

\* ClassDefinition.validate up to the statements of the class
ClassValidate(c, sup) ==
    /\ pc = "validating"
    /\ Len(ctx) < MaxDepth
    /\ LET e1 == IF isInsideFun
                 THEN parseError(errors, "classWithinFun", "")
                 ELSE errors
           e2 == IF isInsideBlock
                 THEN parseError(e1, "classWithinBlock", "")
                 ELSE e1
           e3 == setClassErrors(e2, c, sup)
           e4 == IF sup # NoSuper /\ sup = c
                 THEN parseError(e3, "extendingItself", "")
                 ELSE IF sup \in CoreClassNames
                      THEN parseError(e3, "extendsCoreClass", "")
                      ELSE e3
       IN  /\ Len(e4) <= MaxErrors
           /\ errors' = e4
    /\ classes' = setClassTable(c, sup, FALSE)
    /\ classKeys' = IF c \in Range(classKeys) THEN classKeys
                    ELSE Append(classKeys, c)
    /\ currentClass' = c
    /\ currentClassV' = c
    /\ ctx' = Append(ctx, "class")
    /\ ev' = Ev("setClass", c, sup)
    /\ UNCHANGED <<pc, nsub, programs, funs>>
    /\ UNCHANGED <<calls, usedFunsStack, lateKeys, lateFuns,
                   endValidateCallbacks>>
    /\ UNCHANGED scopeVars
    /\ UNCHANGED finVars
    /\ UNCHANGED symVars
    /\ UNCHANGED globVars
    /\ UNCHANGED unitVars
    /\ lastErrorName' = lastNameOf(errors, errors', lastErrorName)

\* ClassDefinition.validate after the statements: unsetClass
ClassEnd ==
    /\ pc = "validating"
    /\ ctx # <<>>
    /\ ctx[Len(ctx)] = "class"
    /\ currentClass' = NoClass
    /\ ctx' = Front(ctx)
    /\ ev' = NoEv
    /\ UNCHANGED <<pc, nsub, errors, programs, funs>>
    /\ UNCHANGED <<classKeys, classes, currentClassV, calls, usedFunsStack,
                   lateKeys, lateFuns, endValidateCallbacks>>
    /\ UNCHANGED scopeVars
    /\ UNCHANGED finVars
    /\ UNCHANGED symVars
    /\ UNCHANGED globVars
    /\ UNCHANGED unitVars
    /\ lastErrorName' = lastNameOf(errors, errors', lastErrorName)

\* ExtensionClassDefinition.validate up to the statements: the declaration
\* of a core class
ExtensionClassValidate(c, sup) ==
    /\ pc = "validating"
    /\ Len(ctx) < MaxDepth
    /\ LET e1 == IF isInsideClass
                 THEN parseError(errors, "classWithinClass", "")
                 ELSE errors
           e2 == setClassErrors(e1, c, sup)
           e3 == IF sup = NoSuper THEN e2
                 ELSE IF sup = c
                      THEN parseError(e2, "extendingItself", "")
                      ELSE parseError(e2, "coreClassExtends", "")
       IN  /\ Len(e3) <= MaxErrors
           /\ errors' = e3
    /\ classes' = setClassTable(c, sup, TRUE)
    /\ classKeys' = IF c \in Range(classKeys) THEN classKeys
                    ELSE Append(classKeys, c)
    /\ currentClass' = c
    /\ currentClassV' = c
    /\ ctx' = Append(ctx, "class")
    /\ ev' = Ev("setClass", c, sup)
    /\ UNCHANGED <<pc, nsub, programs, funs>>
    /\ UNCHANGED <<calls, usedFunsStack, lateKeys, lateFuns,
                   endValidateCallbacks>>
    /\ UNCHANGED scopeVars
    /\ UNCHANGED finVars
    /\ UNCHANGED symVars
    /\ UNCHANGED globVars
    /\ UNCHANGED unitVars
    /\ lastErrorName' = lastNameOf(errors, errors', lastErrorName)

\* Validator.isInsideExtensionClass
isInsideExtensionClass == currentClass # NoClass /\ classes[currentClass].ext

\* variant of addNewDuplicate that takes any constructor of the class for
\* one of the same number of parameters; C18 fails under it
addNewDuplicateAny(c, n) == classes[c].news # {}

\* ClassValidator.addNew: news[index] !== undefined
addNewDuplicate(c, n) == n \in classes[c].news

\* Constructor.validate up to the body, for a constructor with the
\* parameters ps.  Outside a class the node reports and validates nothing
\* more; isAdminMode is false.
ConstructorValidate(ps) ==
    /\ pc = "validating"
    /\ Len(ctx) < MaxDepth
    /\ IF ~isInsideClass
       THEN /\ Len(errors) < MaxErrors
            /\ errors' = parseError(errors, "constructorOutsideClass", "")
            /\ ev' = NoEv
            /\ UNCHANGED <<ctx, classes>>
            /\ UNCHANGED scopeVars
       ELSE LET n == Cardinality(ps)
                fun == [name |-> "new", type |-> "constructor"]
                e0 == IF isInsideExtensionClass
                      THEN parseError(errors, "constructorInCoreClass", "")
                      ELSE errors
                e1 == IF isInsideFun
                      THEN parseError(e0, "funWithinFun", "")
                      ELSE IF isInsideBlock
                           THEN parseError(e0, "funWithinBlock", "")
                           ELSE e0
                isOutFun == ~isInsideFun
                e2 == IF isOutFun /\ addNewDuplicate(currentClass, n)
                      THEN parseError(e1, "duplicateConstructor",
                                      currentClass)
                      ELSE e1
                S1 == IF isOutFun THEN pushFunScope(Scope, fun) ELSE Scope
                r == validateParams(e2, S1, SetToSeq(ps))
            IN  /\ Len(r.errs) <= MaxErrors
                /\ errors' = r.errs
                /\ classes' = IF isOutFun
                              THEN [classes EXCEPT
                                        ![currentClass].news = @ \cup {n}]
                              ELSE classes
                /\ SetScope(r.S)
                /\ ctx' = Append(ctx, IF isOutFun THEN "fun" ELSE "nfun")
                /\ ev' = IF isOutFun THEN Ev("addNew", currentClass, n)
                         ELSE NoEv
    /\ UNCHANGED <<pc, nsub, programs, funs>>
    /\ UNCHANGED <<classKeys, currentClass, currentClassV, calls,
                   usedFunsStack, lateKeys, lateFuns, endValidateCallbacks>>
    /\ UNCHANGED finVars
    /\ UNCHANGED symVars
    /\ UNCHANGED globVars
    /\ UNCHANGED unitVars
    /\ lastErrorName' = lastNameOf(errors, errors', lastErrorName)

\* FieldVariable.validate for the field f outside parameters, in a node
\* that assigns to it (isAssignmentFlag) or reads it.  validateField tests
\* this.isAssignment, a method that is not called there: a truthy value,
\* so the field is assigned whatever the node does with it.  fieldReads
\* and fieldWrites keep what the nodes of the class did with the field.
FieldVariableValidate(f, isAssignmentFlag) ==
    /\ pc = "validating"
    /\ IF ~isInsideClass
       THEN /\ Len(errors) < MaxErrors
            /\ errors' = parseError(errors, "fieldOutsideClass", f)
            /\ classes' = classes
       ELSE IF ~isInsideFun
            THEN /\ Len(errors) < MaxErrors
                 /\ errors' = parseError(errors, "fieldOutsideMethod", f)
                 /\ classes' = classes
            ELSE /\ errors' = errors
                 /\ classes' = [classes EXCEPT
                                    ![currentClass].assignedFields =
                                        @ \cup {f},
                                    ![currentClass].fieldWrites =
                                        IF isAssignmentFlag
                                        THEN @ \cup {f} ELSE @,
                                    ![currentClass].fieldReads =
                                        IF isAssignmentFlag
                                        THEN @ ELSE @ \cup {f}]
    /\ ev' = NoEv
    /\ UNCHANGED <<pc, ctx, nsub, programs, funs>>
    /\ UNCHANGED <<classKeys, currentClass, currentClassV, calls,
                   usedFunsStack, lateKeys, lateFuns, endValidateCallbacks>>
    /\ UNCHANGED scopeVars
    /\ UNCHANGED finVars
    /\ UNCHANGED symVars
    /\ UNCHANGED globVars
    /\ UNCHANGED unitVars
    /\ lastErrorName' = lastNameOf(errors, errors', lastErrorName)

(***************************************************************************)
(* Calls.                                                                  *)
(***************************************************************************)
\* LateFunctionBinder.addFun: the buckets of the class after it
addFunBuckets(bs, cn, site) ==
    IF \E i \in 1..Len(bs) : bs[i].cn = cn
    THEN [i \in 1..Len(bs) |->
             IF bs[i].cn = cn
             THEN [bs[i] EXCEPT !.sites = Append(@, site)]
             ELSE bs[i]]
    ELSE Append(bs, [cn |-> cn, sites |-> <<site>>])

\* FunctionCall.validate for a call without receiver, parameters or block
\* whose name is no class modifier
CallValidate(cn) ==
    /\ pc = "validating"
    /\ IF isInsideClassDefinition
       THEN /\ Len(errors) < MaxErrors
            /\ errors' = parseError(errors, "callInClassDefinition", cn)
            /\ UNCHANGED <<calls, usedFunsStack, lateKeys, lateFuns>>
       ELSE LET site == Len(calls) + 1
                bound == isInsideClass /\ cn \in classes[currentClass].funs
                late == isInsideClass /\ ~bound
            IN  /\ Len(calls) < MaxCalls
                /\ calls' = Append(calls, [cn |-> cn, cls |-> currentClass,
                                           isMethod |-> bound, sym |-> Sym])
                /\ lateFuns' =
                       IF late
                       THEN [lateFuns EXCEPT ![currentClassV] =
                                addFunBuckets(@, cn, site)]
                       ELSE lateFuns
                /\ lateKeys' =
                       IF late /\ currentClassV \notin Range(lateKeys)
                       THEN Append(lateKeys, currentClassV)
                       ELSE lateKeys
                /\ usedFunsStack' =
                       IF ~isInsideClass /\ cn \notin funs
                       THEN Append(usedFunsStack, site)
                       ELSE usedFunsStack
                /\ UNCHANGED errors
    /\ ev' = NoEv
    /\ UNCHANGED <<pc, ctx, nsub, programs, funs>>
    /\ UNCHANGED <<classKeys, classes, currentClass, currentClassV,
                   endValidateCallbacks>>
    /\ UNCHANGED scopeVars
    /\ UNCHANGED finVars
    /\ UNCHANGED symVars
    /\ UNCHANGED globVars
    /\ UNCHANGED unitVars
    /\ lastErrorName' = lastNameOf(errors, errors', lastErrorName)

\* ClassValidator.useFun: usedFuns[callName] = fun.  The key keeps its
\* place, the call kept for it is the last one.
useFunKeep(used, cn, sym) ==
    IF \E i \in 1..Len(used) : used[i].cn = cn
    THEN [i \in 1..Len(used) |->
             IF used[i].cn = cn THEN [cn |-> cn, sym |-> sym] ELSE used[i]]
    ELSE Append(used, [cn |-> cn, sym |-> sym])

\* MethodCall.validate for this.cn() inside a method of a class:
\* ThisVariable.validate has nothing to report, validateThis calls
\* useThisClassFun
ThisCallValidate(cn) ==
    /\ pc = "validating"
    /\ isInsideClass
    /\ isInsideFun
    /\ classes' = IF cn \notin classes[currentClass].funs
                  THEN [classes EXCEPT ![currentClass].usedFuns =
                           useFunKeep(@, cn, Sym)]
                  ELSE classes
    /\ ev' = NoEv
    /\ UNCHANGED <<pc, ctx, nsub, errors, programs, funs>>
    /\ UNCHANGED <<classKeys, currentClass, currentClassV, calls,
                   usedFunsStack, lateKeys, lateFuns, endValidateCallbacks>>
    /\ UNCHANGED scopeVars
    /\ UNCHANGED finVars
    /\ UNCHANGED symVars
    /\ UNCHANGED globVars
    /\ UNCHANGED unitVars
    /\ lastErrorName' = lastNameOf(errors, errors', lastErrorName)

\* NewInstance.validate for new c(...) with n literal parameters and no
\* block: the check waits for endValidate
NewInstanceValidate(c, n) ==
    /\ pc = "validating"
    /\ Len(endValidateCallbacks) < MaxCallbacks
    /\ endValidateCallbacks' =
           Append(endValidateCallbacks,
                  [node |-> "new", cls |-> c, n |-> n, sym |-> Sym])
    /\ ev' = NoEv
    /\ UNCHANGED <<pc, ctx, nsub, errors, programs, funs>>
    /\ UNCHANGED <<classKeys, classes, currentClass, currentClassV, calls,
                   usedFunsStack, lateKeys, lateFuns>>
    /\ UNCHANGED scopeVars
    /\ UNCHANGED finVars
    /\ UNCHANGED symVars
    /\ UNCHANGED globVars
    /\ UNCHANGED unitVars
    /\ lastErrorName' = lastNameOf(errors, errors', lastErrorName)

\* Validator.useFun for a call that is a method call:
\* calledMethods[callName] = funCall.  The key keeps its place, the call
\* kept for it is the last one.
useFunCalledMethods(called, cn, sym) ==
    IF \E i \in 1..Len(called) : called[i].cn = cn
    THEN [i \in 1..Len(called) |->
             IF called[i].cn = cn THEN [cn |-> cn, sym |-> sym]
             ELSE called[i]]
    ELSE Append(called, [cn |-> cn, sym |-> sym])

\* MethodCall.validate for expr.cn() with a literal as expr, without
\* parameters or block: the literal has nothing to report, validateThis
\* calls useFun, where isMethod() holds
MethodCallValidate(cn) ==
    /\ pc = "validating"
    /\ IF isInsideClassDefinition
       THEN /\ Len(errors) < MaxErrors
            /\ errors' = parseError(errors, "callInClassDefinition", cn)
            /\ UNCHANGED calledMethods
       ELSE /\ calledMethods' = useFunCalledMethods(calledMethods, cn, Sym)
            /\ UNCHANGED errors
    /\ ev' = NoEv
    /\ UNCHANGED <<pc, ctx, nsub, programs, funs, globals, usedGlobals,
                   globalReads, globalWrites>>
    /\ UNCHANGED unitVars
    /\ UNCHANGED bindVars
    /\ UNCHANGED scopeVars
    /\ UNCHANGED finVars
    /\ UNCHANGED symVars
    /\ lastErrorName' = lastNameOf(errors, errors', lastErrorName)

(***************************************************************************)
(* Global variables.                                                       *)
(***************************************************************************)
\* GlobalVariable.validate for a global with a name that is not blank.
\* The test of the node is this.isAssignment, the method of Identifier and
\* not its result: it holds for a global that is read as for one that is
\* assigned to, and both end in assignGlobal.  isAssignmentFlag tells
\* what the node does with the global.
GlobalVariableValidate(g, isAssignmentFlag) ==
    /\ pc = "validating"
    /\ globals' = globals \cup {g}
    /\ globalWrites' = IF isAssignmentFlag THEN globalWrites \cup {g}
                       ELSE globalWrites
    /\ globalReads' = IF isAssignmentFlag THEN globalReads
                      ELSE globalReads \cup {g}
    /\ ev' = NoEv
    /\ UNCHANGED <<pc, ctx, nsub, errors, programs, funs, usedGlobals,
                   calledMethods>>
    /\ UNCHANGED unitVars
    /\ UNCHANGED bindVars
    /\ UNCHANGED scopeVars
    /\ UNCHANGED finVars
    /\ UNCHANGED symVars
    /\ lastErrorName' = lastNameOf(errors, errors', lastErrorName)

\* The statements that follow are on the next line of the source.
NextLine ==
    /\ pc = "validating"
    /\ line < MaxLines
    /\ line' = line + 1
    /\ ev' = NoEv
    /\ UNCHANGED <<pc, ctx, nsub, errors, programs, funs, source,
                   lastErrorName, errBase>>
    /\ UNCHANGED bindVars
    /\ UNCHANGED scopeVars
    /\ UNCHANGED finVars
    /\ UNCHANGED globVars
    /\ UNCHANGED unitVars

(***************************************************************************)
(* getErrors.                                                              *)
(***************************************************************************)
\* String.prototype.localeCompare on the names of the model, as the
\* difference of their ranks.  A null argument is compared as the string
\* "null", which comes after "a.q" and "b.q".
nameRank(name) ==
    CASE name = "a.q" -> 1
      [] name = "b.q" -> 2
      [] name = NoName -> 3

localeCompare(a, b) == nameRank(a) - nameRank(b)

\* the comparator of getErrors throws for a and b: a.name is null and
\* b.name is not
compareThrows(a, b) == a.name # b.name /\ a.name = NoName

\* the comparator of getErrors where it returns; the lines of the entries
\* are numbers
compareErrors(a, b) ==
    IF a.name = b.name THEN a.line - b.line
    ELSE localeCompare(a.name, b.name)

\* Array.prototype.sort with the comparator of getErrors: a stable
\* insertion from the left.
RECURSIVE insertError(_, _)
insertError(sorted, e) ==
    IF sorted = <<>> THEN <<e>>
    ELSE IF compareErrors(sorted[Len(sorted)], e) <= 0
         THEN Append(sorted, e)
         ELSE Append(insertError(Front(sorted), e), sorted[Len(sorted)])

RECURSIVE sortErrors(_)
sortErrors(errs) ==
    IF errs = <<>> THEN <<>>
    ELSE insertError(sortErrors(Front(errs)), errs[Len(errs)])

\* Which entry the sort hands to the comparator first is up to the
\* engine: a list that holds two entries the comparator throws for can
\* make getErrors throw.
sortCanThrow(errs) ==
    \E i, j \in 1..Len(errs) : compareThrows(errs[i], errs[j])

\* Validator.getErrors where it returns: errors is sorted in place
getErrors(errs) == sortErrors(errs)

\* getErrors() between two calls of the validator.  A throw of the
\* comparator leaves the sort, and errors in its order.
GetErrors ==
    /\ pc \in {"idle", "finalized"}
    /\ \/ /\ errors' = getErrors(errors)
          /\ ev' = Ev("getErrors", "returned", "")
       \/ /\ sortCanThrow(errors)
          /\ errors' = errors
          /\ ev' = Ev("getErrors", "threw", "")
    /\ UNCHANGED <<pc, ctx, nsub, programs, funs, lastErrorName>>
    /\ UNCHANGED bindVars
    /\ UNCHANGED scopeVars
    /\ UNCHANGED finVars
    /\ UNCHANGED symVars
    /\ UNCHANGED globVars
    /\ UNCHANGED unitVars

(***************************************************************************)
(* finalizeProgram: endValidate, then generateCode unless there are        *)
(* errors.  endValidateInner is one action per step; a step that throws    *)
(* leaves the rest to the catch of endValidate.                            *)
(***************************************************************************)
\* variant of usedFunsErrors that looks at the first kept call only; C7
\* fails under it
usedFunsErrorsFirstOnly(errs, stack) ==
    IF stack = <<>> THEN errs
    ELSE IF calls[Head(stack)].cn \notin funs
         THEN searchMissingFunAndError(errs, calls[Head(stack)].cn,
                                       Head(stack), calls[Head(stack)].sym,
                                       "function")
         ELSE errs

\* first loop of endValidateInner: the calls kept in usedFunsStack
RECURSIVE usedFunsErrors(_, _)
usedFunsErrors(errs, stack) ==
    IF stack = <<>> THEN errs
    ELSE LET site == Head(stack)
             cn == calls[site].cn
         IN  usedFunsErrors(
                 IF cn \notin funs
                 THEN searchMissingFunAndError(errs, cn, site,
                                               calls[site].sym, "function")
                 ELSE errs,
                 Tail(stack))

\* ClassValidator.endValidate: the walk up the declared super classes
RECURSIVE superWalkErrors(_, _, _, _)
superWalkErrors(errs, c, sup, seenClasses) ==
    IF sup = NoSuper THEN errs
    ELSE IF sup \notin Range(classKeys)
         THEN IF sup \notin CoreClassNames
              THEN parseErrorSym(errs, "superNotFound", sup, 0,
                                 classes[c].sym)
              ELSE errs
         ELSE IF sup \in seenClasses
              THEN parseErrorSym(errs, "circularInheritance", c, 0,
                                 classes[c].sym)
              ELSE superWalkErrors(errs, c, classes[sup].sup,
                                   seenClasses \cup {sup})

\* ClassValidator.endValidate: the calls on this kept in usedFuns
RECURSIVE usedThisFuns(_, _, _)
usedThisFuns(r, c, used) ==
    IF used = <<>> THEN r
    ELSE LET cn == Head(used).cn
             h == hasFunInHierarchy(classes, classKeys, c, cn)
         IN  IF cn \in classes[c].funs
             THEN usedThisFuns(r, c, Tail(used))
             ELSE IF h = "overflow"
                  THEN [r EXCEPT !.threw = TRUE]
                  ELSE IF h = "false"
                       THEN usedThisFuns(
                                [r EXCEPT !.errs = searchMissingFunAndError(
                                              @, cn, 0, Head(used).sym,
                                              "method")],
                                c, Tail(used))
                       ELSE usedThisFuns(r, c, Tail(used))

\* ClassValidator.endValidate: superClassVs, the classes the walk passes
RECURSIVE superClassVs(_, _)
superClassVs(sup, seenClasses) ==
    IF sup = NoSuper \/ sup \notin Range(classKeys) \/ sup \in seenClasses
    THEN <<>>
    ELSE <<sup>> \o superClassVs(classes[sup].sup, seenClasses \cup {sup})

\* ClassValidator.endValidate: the fields used and not assigned in the class
RECURSIVE usedFieldsErrors(_, _, _)
usedFieldsErrors(errs, c, used) ==
    IF used = <<>> THEN errs
    ELSE LET field == Head(used)
             chain == superClassVs(classes[c].sup, {c})
         IN  usedFieldsErrors(
                 IF field.name \in classes[c].assignedFields THEN errs
                 ELSE IF \E i \in 1..Len(chain) :
                            field.name \in classes[chain[i]].assignedFields
                      THEN parseErrorSym(errs, "fieldOfSuperClass",
                                         field.name, 0, field.sym)
                      ELSE parseErrorSym(errs, "fieldNeverAssigned",
                                         field.name, 0, field.sym),
                 c, Tail(used))

ClassValidatorEndValidate(errs, c) ==
    usedThisFuns(
        [errs |-> usedFieldsErrors(
                      superWalkErrors(errs, c, classes[c].sup, {c}),
                      c, classes[c].usedFields),
         threw |-> FALSE],
        c, classes[c].usedFuns)

\* The outcomes of a recursion without end: the stack overflows and the
\* RangeError reaches the catch of endValidate, or, where the tail call
\* of this strict-mode code takes no stack, the call never returns.
OverflowOutcomes == {"endValidateCatch", "hung"}

\* variant of afterFuns that goes on with the called methods and leaves
\* the classes out; C11 fails under it
afterFunsSkipsClasses == "endValidateMethods"

afterFuns == IF classKeys = <<>> THEN "endValidateMethods"
             ELSE "endValidateClasses"

Step(name, of) == [step |-> name, of |-> of]

\* second loop of endValidateInner: the globals kept in usedGlobals
RECURSIVE usedGlobalsErrors(_, _)
usedGlobalsErrors(errs, used) ==
    IF used = <<>> THEN errs
    ELSE usedGlobalsErrors(
             IF Head(used).g \notin globals
             THEN parseErrorSym(errs, "globalNeverAssigned", Head(used).g, 0,
                                Head(used).sym)
             ELSE errs,
             Tail(used))

\* endValidateInner: usedFunsStack, then usedGlobals
EndValidateFuns ==
    /\ pc = "idle"
    /\ errors' = usedGlobalsErrors(usedFunsErrors(errors, usedFunsStack),
                                   usedGlobals)
    /\ steps' = steps \o <<Step("funs", ""), Step("globals", "")>>
    /\ pc' = afterFuns
    /\ finIdx' = 1
    /\ ev' = NoEv
    /\ UNCHANGED <<ctx, nsub, programs, funs, ran, output, printed>>
    /\ UNCHANGED bindVars
    /\ UNCHANGED scopeVars
    /\ UNCHANGED symVars
    /\ UNCHANGED globVars
    /\ UNCHANGED unitVars
    /\ lastErrorName' = lastNameOf(errors, errors', lastErrorName)

\* endValidateInner: classes[classesKeys[i]].endValidate()
EndValidateClass ==
    /\ pc = "endValidateClasses"
    /\ LET c == classKeys[finIdx]
           r == ClassValidatorEndValidate(errors, c)
       IN  /\ errors' = r.errs
           /\ classes' = [classes EXCEPT ![c].news =
                             IF @ = {} /\ ~classes[c].ext THEN {0} ELSE @]
           /\ IF r.threw
              THEN /\ pc' \in OverflowOutcomes
                   /\ finIdx' = finIdx
                   /\ steps' = steps
              ELSE /\ pc' = IF finIdx = Len(classKeys)
                            THEN "endValidateMethods"
                            ELSE "endValidateClasses"
                   /\ finIdx' = finIdx + 1
                   /\ steps' = Append(steps, Step("class", c))
    /\ ev' = NoEv
    /\ UNCHANGED <<ctx, nsub, programs, funs, ran, output, printed>>
    /\ UNCHANGED <<classKeys, currentClass, currentClassV, calls,
                   usedFunsStack, lateKeys, lateFuns, endValidateCallbacks>>
    /\ UNCHANGED scopeVars
    /\ UNCHANGED symVars
    /\ UNCHANGED globVars
    /\ UNCHANGED unitVars
    /\ lastErrorName' = lastNameOf(errors, errors', lastErrorName)

\* fourth loop of endValidateInner: a called method that no class has.
\* The call names of the model have one arity each and no get/set twin, so
\* searchForMethodLike finds no alternative.
RECURSIVE calledMethodsErrors(_, _)
calledMethodsErrors(errs, called) ==
    IF called = <<>> THEN errs
    ELSE calledMethodsErrors(
             IF \E j \in 1..Len(classKeys) :
                    Head(called).cn \in classes[classKeys[j]].funs
             THEN errs
             ELSE parseErrorSym(errs, "methodNotInAnyClass", Head(called).cn,
                                0, Head(called).sym),
             Tail(called))

\* endValidateInner: calledMethods
EndValidateMethods ==
    /\ pc = "endValidateMethods"
    /\ errors' = calledMethodsErrors(errors, calledMethods)
    /\ steps' = Append(steps, Step("methods", ""))
    /\ pc' = "endValidateLate"
    /\ ev' = NoEv
    /\ UNCHANGED <<ctx, nsub, programs, funs, finIdx, ran, output, printed>>
    /\ UNCHANGED bindVars
    /\ UNCHANGED scopeVars
    /\ UNCHANGED symVars
    /\ UNCHANGED globVars
    /\ UNCHANGED unitVars
    /\ lastErrorName' = lastNameOf(errors, errors', lastErrorName)

\* LateFunctionBinder.endValidate: the buckets in the order of the two loops
RECURSIVE lateBuckets(_)
lateBuckets(keys) ==
    IF keys = <<>> THEN <<>>
    ELSE [i \in 1..Len(lateFuns[Head(keys)]) |->
             [cls |-> Head(keys),
              cn |-> lateFuns[Head(keys)][i].cn,
              sites |-> lateFuns[Head(keys)][i].sites]]
         \o lateBuckets(Tail(keys))

\* innerFuns[k].setIsMethod() for every k
setIsMethod(cs, sites) ==
    [i \in 1..Len(cs) |->
        IF i \in Range(sites) THEN [cs[i] EXCEPT !.isMethod = TRUE]
        ELSE cs[i]]

\* one diagnostic for every innerFuns[k]
RECURSIVE lateUndefinedErrors(_, _, _)
lateUndefinedErrors(errs, cn, sites) ==
    IF sites = <<>> THEN errs
    ELSE lateUndefinedErrors(
             parseErrorAt(errs, "undefinedInClassOrFunction", cn, Head(sites)),
             cn, Tail(sites))

RECURSIVE lateEndValidate(_, _)
lateEndValidate(r, bs) ==
    IF bs = <<>> THEN r
    ELSE LET b == Head(bs)
             h == hasFunInHierarchy(classes, classKeys, b.cls, b.cn)
         IN  IF h = "overflow"
             THEN [r EXCEPT !.threw = TRUE]
             ELSE IF h = "true"
                  THEN lateEndValidate(
                           [r EXCEPT !.calls = setIsMethod(@, b.sites)],
                           Tail(bs))
                  ELSE IF b.cn \notin funs
                       THEN lateEndValidate(
                                [r EXCEPT !.errs = lateUndefinedErrors(
                                              @, b.cn, b.sites)],
                                Tail(bs))
                       ELSE lateEndValidate(r, Tail(bs))

\* endValidateInner: lateUsedFuns.endValidate(this.funs)
EndValidateLate ==
    /\ pc = "endValidateLate"
    /\ LET r == lateEndValidate(
                    [errs |-> errors, calls |-> calls, threw |-> FALSE],
                    lateBuckets(lateKeys))
       IN  /\ errors' = r.errs
           /\ calls' = r.calls
           /\ IF r.threw
              THEN pc' \in OverflowOutcomes /\ steps' = steps
              ELSE /\ pc' = "endValidateCallbacks"
                   /\ steps' = Append(steps, Step("late", ""))
    /\ finIdx' = 1
    /\ ev' = NoEv
    /\ UNCHANGED <<ctx, nsub, programs, funs, ran, output, printed>>
    /\ UNCHANGED <<classKeys, classes, currentClass, currentClassV,
                   usedFunsStack, lateKeys, lateFuns, endValidateCallbacks>>
    /\ UNCHANGED scopeVars
    /\ UNCHANGED symVars
    /\ UNCHANGED globVars
    /\ UNCHANGED unitVars
    /\ lastErrorName' = lastNameOf(errors, errors', lastErrorName)

\* The callback NewInstance.validate registers, for new c().
\* klass.isExtensionClass is a method that is not called there: a truthy
\* value.
newInstanceCallback(errs, cb) ==
    IF cb.cls \in Range(classKeys)
    THEN IF \/ cb.n \notin classes[cb.cls].news
            \/ (classes[cb.cls].news = {} /\ cb.n > 0)
         THEN IF classes[cb.cls].news = {}
              THEN parseErrorSym(errs, "noConstructor", cb.cls, 0, cb.sym)
              ELSE parseErrorSym(errs, "wrongConstructorParameters", cb.cls,
                                 0, cb.sym)
         ELSE errs
    ELSE parseErrorSym(errs, "undefinedClass", cb.cls, 0, cb.sym)

\* endValidateInner: endValidateCallbacks[i](this)
EndValidateCallback ==
    /\ pc = "endValidateCallbacks"
    /\ finIdx <= Len(endValidateCallbacks)
    /\ errors' = newInstanceCallback(errors, endValidateCallbacks[finIdx])
    /\ ran' = Append(ran, endValidateCallbacks[finIdx])
    /\ steps' = Append(steps, Step("callback", endValidateCallbacks[finIdx].cls))
    /\ finIdx' = finIdx + 1
    /\ ev' = NoEv
    /\ UNCHANGED <<pc, ctx, nsub, programs, funs, output, printed>>
    /\ UNCHANGED bindVars
    /\ UNCHANGED scopeVars
    /\ UNCHANGED symVars
    /\ UNCHANGED globVars
    /\ UNCHANGED unitVars
    /\ lastErrorName' = lastNameOf(errors, errors', lastErrorName)

\* endValidateInner: the loop is over, the list is emptied; endValidate
\* returns
EndValidateReturns ==
    /\ pc = "endValidateCallbacks"
    /\ finIdx > Len(endValidateCallbacks)
    /\ endValidateCallbacks' = <<>>
    /\ pc' = "finalizeReturn"
    /\ ev' = NoEv
    /\ UNCHANGED <<ctx, nsub, errors, programs, funs>>
    /\ UNCHANGED <<classKeys, classes, currentClass, currentClassV, calls,
                   usedFunsStack, lateKeys, lateFuns>>
    /\ UNCHANGED finVars
    /\ UNCHANGED scopeVars
    /\ UNCHANGED symVars
    /\ UNCHANGED globVars
    /\ UNCHANGED unitVars
    /\ lastErrorName' = lastNameOf(errors, errors', lastErrorName)

\* variant of EndValidateCatch that goes on with the callbacks; C10 fails
\* under it
EndValidateCatchResumes ==
    /\ pc = "endValidateCatch"
    /\ errors' = parseError(errors, "crash", "")
    /\ pc' = "endValidateCallbacks"
    /\ finIdx' = 1
    /\ ev' = Ev("endValidateCatch", "", "")
    /\ UNCHANGED <<ctx, nsub, programs, funs, ran, output, printed, steps>>
    /\ UNCHANGED bindVars
    /\ UNCHANGED scopeVars
    /\ UNCHANGED symVars
    /\ UNCHANGED globVars
    /\ UNCHANGED unitVars
    /\ lastErrorName' = lastNameOf(errors, errors', lastErrorName)

\* endValidate: the catch around endValidateInner
EndValidateCatch ==
    /\ pc = "endValidateCatch"
    /\ errors' = parseError(errors, "crash", "")
    /\ pc' = "finalizeReturn"
    /\ ev' = Ev("endValidateCatch", "", "")
    /\ UNCHANGED <<ctx, nsub, programs, funs>>
    /\ UNCHANGED bindVars
    /\ UNCHANGED finVars
    /\ UNCHANGED scopeVars
    /\ UNCHANGED symVars
    /\ UNCHANGED globVars
    /\ UNCHANGED unitVars
    /\ lastErrorName' = lastNameOf(errors, errors', lastErrorName)

\* generateCode: every program of the list is printed, in order
generateCode == programs

\* finalizeProgram after endValidate
FinalizeProgramReturns ==
    /\ pc = "finalizeReturn"
    /\ IF hasErrors
       THEN /\ output' = ""
            /\ printed' = printed
       ELSE /\ output' = "code"
            /\ printed' = generateCode
    /\ pc' = "finalized"
    /\ UNCHANGED <<ctx, nsub, errors, programs, funs, finIdx, ran, ev,
                   steps>>
    /\ UNCHANGED bindVars
    /\ UNCHANGED scopeVars
    /\ UNCHANGED symVars
    /\ UNCHANGED globVars
    /\ UNCHANGED unitVars
    /\ lastErrorName' = lastNameOf(errors, errors', lastErrorName)

(***************************************************************************)
(* The Printer.  A piece of text is <<kind, n>>: the text that call n of   *)
(* the printer was given, kind saying which call it was; join('') of an    *)
(* array is the sequence of its pieces.  The arrays of a statement are     *)
(* kept up to their lengths: what lies beyond currentLength and postLength *)
(* is never read.                                                          *)
(***************************************************************************)
newPrinterStatement == [currentStatement |-> <<>>, postStatement |-> <<>>]

\* new Printer(); out is what toString() returned last, ops the calls made
NewPrinter ==
    [pre |-> <<>>, stmts |-> <<>>, preOrStmts |-> "stmts",
     currentPre |-> newPrinterStatement,
     currentStmt |-> newPrinterStatement,
     current |-> "currentStmt", isCode |-> TRUE,
     out |-> <<>>, ops |-> <<>>]

\* history: a call of op is made, in the mode the printer is in
logCall(p, op) ==
    [p EXCEPT !.ops = Append(@, [op |-> op, isCode |-> p.isCode])]

\* the text that the next call is given
nextText(p, kind) == <<kind, Len(p.ops) + 1>>

\* this.preOrStmts and this.current are references
destOf(p) == IF p.preOrStmts = "pre" THEN p.pre ELSE p.stmts

withDest(p, dest) ==
    IF p.preOrStmts = "pre" THEN [p EXCEPT !.pre = dest]
    ELSE [p EXCEPT !.stmts = dest]

currentOf(p) == IF p.current = "currentPre" THEN p.currentPre ELSE p.currentStmt

withCurrent(p, st) ==
    IF p.current = "currentPre" THEN [p EXCEPT !.currentPre = st]
    ELSE [p EXCEPT !.currentStmt = st]

\* a flush that leaves the lengths as they are
statementFlushKeepsLengths(st, dest) ==
    [st |-> st,
     dest |-> dest \o st.currentStatement \o st.postStatement]

\* IPrinterStatement.flush(dest): the statement and dest afterwards
statementFlush(st, dest) ==
    [st |-> newPrinterStatement,
     dest |-> dest \o st.currentStatement \o st.postStatement]

\* a setCodeMode that leaves this.preOrStmts as it is
setCodeModeKeepsDest(p, isCode) ==
    IF p.isCode # isCode
    THEN IF isCode
         THEN [p EXCEPT !.current = "currentStmt", !.isCode = TRUE]
         ELSE [p EXCEPT !.current = "currentPre", !.isCode = FALSE]
    ELSE p

setCodeMode(p, isCode) ==
    IF p.isCode # isCode
    THEN IF isCode
         THEN [p EXCEPT !.current = "currentStmt", !.preOrStmts = "stmts",
                        !.isCode = TRUE]
         ELSE [p EXCEPT !.current = "currentPre", !.preOrStmts = "pre",
                        !.isCode = FALSE]
    ELSE p

appendPre(p, e) == withDest(p, Append(destOf(p), e))

append(p, e) ==
    withCurrent(p, [currentOf(p) EXCEPT !.currentStatement = Append(@, e)])

appendPost(p, e) ==
    withCurrent(p, [currentOf(p) EXCEPT !.postStatement = Append(@, e)])

flush(p) ==
    LET r == statementFlush(currentOf(p), destOf(p))
    IN  withDest(withCurrent(p, r.st), r.dest)

\* endStatement(), e being STATEMENT_END
endStatement(p, e) == flush(append(p, e))

toString(p) ==
    LET a == statementFlush(p.currentPre, p.pre)
        b == statementFlush(p.currentStmt, p.stmts)
    IN  [p EXCEPT !.currentPre = a.st, !.pre = a.dest,
                  !.currentStmt = b.st, !.stmts = b.dest,
                  !.out = a.dest \o b.dest]

(***************************************************************************)
(* Initial state: the constructor, which ends with pushScope().            *)
(***************************************************************************)
Init ==
    /\ pc = "idle"
    /\ ctx = <<>>
    /\ nsub = 0
    /\ errors = <<>>
    /\ programs = <<>>
    /\ vars = <<{}>>
    /\ isBlockArr = <<FALSE>>
    /\ funCount = 0
    /\ currentFun = NoFun
    /\ funVars = <<>>
    /\ preVars = <<>>
    /\ funs = {}
    /\ classKeys = <<>>
    /\ classes = [c \in AllClassNames |-> NewClass(NoSuper)]
    /\ currentClass = NoClass
    /\ currentClassV = NoClass
    /\ calls = <<>>
    /\ usedFunsStack = <<>>
    /\ lateKeys = <<>>
    /\ lateFuns = [c \in AllClassNames |-> <<>>]
    /\ endValidateCallbacks = <<>>
    /\ finIdx = 0
    /\ ran = <<>>
    /\ output = "none"
    /\ printed = <<>>
    /\ frameInFun = <<FALSE>>
    /\ ev = Ev("new", "", "")
    /\ source = NoName
    /\ line = 1
    /\ lastErrorName = NoName
    /\ globals = {}
    /\ globalReads = {}
    /\ globalWrites = {}
    /\ usedGlobals = <<>>
    /\ calledMethods = <<>>
    /\ steps = <<>>
    /\ errBase = 0
    /\ search = [op |-> "none"]
    /\ printer = NewPrinter
    /\ gen = [pc |-> "idle"]
    /\ expr = [pc |-> "none"]

(***************************************************************************)
(* The search for a function that a call may have meant.  A name is the    *)
(* sequence of its characters; a table of functions is the sequence of     *)
(* the names of its functions in the order of its keys.                    *)
(***************************************************************************)
MaxFuns == 2
MaxClasses == 2

\* String.prototype.toLowerCase on the characters of the names
lowerChar(ch) ==
    CASE ch = "X" -> "x"
      [] ch = "G" -> "g"
      [] OTHER -> ch

toLowerCase(name) == [i \in 1..Len(name) |-> lowerChar(name[i])]

\* the names of the functions that are declared, and of those called
DeclaredNames == {<<"x">>, <<"X">>, <<"g", "e", "t", "x">>,
                  <<"s", "e", "t", "X">>, <<"y">>}
CalledNames == {<<"x">>, <<"X">>, <<"g", "e", "t", "x">>, <<"G", "e", "t", "x">>,
                <<"z">>}

\* name.indexOf(prefix) === 0
startsWith(name, prefix) ==
    Len(name) >= Len(prefix) /\ SubSeq(name, 1, Len(prefix)) = prefix

\* searchMissingFunWithName: altNames
altNames(name) ==
    IF /\ Len(name) > 3
       /\ startsWith(name, <<"g", "e", "t">>)
          \/ startsWith(name, <<"s", "e", "t">>)
    THEN {SubSeq(name, 4, Len(name))}
    ELSE {<<"g", "e", "t">> \o name, <<"s", "e", "t">> \o name}

NotFound == <<>>

\* searchMissingFunWithName: the loop over the keys, altFun being the
\* alternative found so far
RECURSIVE searchFunsFrom(_, _, _)
searchFunsFrom(name, searchFuns, altFun) ==
    IF searchFuns = <<>> THEN altFun
    ELSE LET searchFun == Head(searchFuns)
             searchName == toLowerCase(searchFun)
         IN  IF searchName = name THEN searchFun
             ELSE searchFunsFrom(name, Tail(searchFuns),
                                 IF altFun = NotFound /\ searchName \in altNames(name)
                                 THEN searchFun ELSE altFun)

searchMissingFunWithName(name, searchFuns) ==
    searchFunsFrom(name, searchFuns, NotFound)

\* searchForMethodLike without a class: the loop over the classes
RECURSIVE searchKlassVals(_, _, _)
searchKlassVals(methodName, klassVals, altMethod) ==
    IF klassVals = <<>> THEN altMethod
    ELSE LET found == searchMissingFunWithName(methodName, Head(klassVals))
         IN  IF found # NotFound /\ toLowerCase(found) = methodName
             THEN found
             ELSE searchKlassVals(methodName, Tail(klassVals),
                                  IF found # NotFound /\ altMethod = NotFound
                                  THEN found ELSE altMethod)

searchForMethodLike(method, klassVals) ==
    searchKlassVals(toLowerCase(method), klassVals, NotFound)

\* what a diagnostic says of the function found for the called name
foundKind(name, found) ==
    IF found = NotFound THEN "undefined"
    ELSE IF toLowerCase(name) = toLowerCase(found) THEN "wrongParameters"
         ELSE "alternative"

\* the tables of functions: up to MaxFuns declared names, none twice
FunTables ==
    {t \in UNION {[1..n -> DeclaredNames] : n \in 0..MaxFuns} :
        \A i, j \in 1..Len(t) : t[i] = t[j] => i = j}

\* searchMissingFunAndError(fun, searchFuns, ...) for a call of name: the
\* search is made with the name as it is written
SearchMissingFunAndError(name, searchFuns) ==
    /\ search.op = "none"
    /\ search' = [op |-> "searchMissingFunAndError",
                  name |-> name,
                  tables |-> <<searchFuns>>,
                  kind |-> foundKind(name,
                               searchMissingFunWithName(name, searchFuns))]
    /\ UNCHANGED <<validatorVars, printer, gen, expr>>

\* the search of endValidateInner for a called method that no class has,
\* and what its diagnostic says
SearchForMethodLike(name, klassVals) ==
    /\ search.op = "none"
    /\ search' = [op |-> "searchForMethodLike",
                  name |-> name,
                  tables |-> klassVals,
                  kind |-> foundKind(name,
                               searchForMethodLike(name, klassVals))]
    /\ UNCHANGED <<validatorVars, printer, gen, expr>>

NextSearch ==
    \/ \E name \in CalledNames, searchFuns \in FunTables :
          SearchMissingFunAndError(name, searchFuns)
    \/ \E name \in CalledNames :
          \E klassVals \in UNION {[1..n -> FunTables] : n \in 0..MaxClasses} :
              SearchForMethodLike(name, klassVals)

SpecSearch == Init /\ [][NextSearch]_vvars

(***************************************************************************)
(* SpecPrinter: up to MaxOps calls on one Printer, in any order.           *)
(***************************************************************************)
MaxOps == 5

PrinterSetCodeMode(isCode) ==
    /\ Len(printer.ops) < MaxOps
    /\ printer' = setCodeMode(logCall(printer, "setCodeMode"), isCode)
    /\ UNCHANGED <<validatorVars, search, gen, expr>>

PrinterAppendPre ==
    /\ Len(printer.ops) < MaxOps
    /\ printer' = appendPre(logCall(printer, "appendPre"),
                            nextText(printer, "pre"))
    /\ UNCHANGED <<validatorVars, search, gen, expr>>

PrinterAppend ==
    /\ Len(printer.ops) < MaxOps
    /\ printer' = append(logCall(printer, "append"),
                         nextText(printer, "now"))
    /\ UNCHANGED <<validatorVars, search, gen, expr>>

PrinterAppendPost ==
    /\ Len(printer.ops) < MaxOps
    /\ printer' = appendPost(logCall(printer, "appendPost"),
                             nextText(printer, "post"))
    /\ UNCHANGED <<validatorVars, search, gen, expr>>

PrinterFlush ==
    /\ Len(printer.ops) < MaxOps
    /\ printer' = flush(logCall(printer, "flush"))
    /\ UNCHANGED <<validatorVars, search, gen, expr>>

PrinterEndStatement ==
    /\ Len(printer.ops) < MaxOps
    /\ printer' = endStatement(logCall(printer, "endStatement"),
                               nextText(printer, "end"))
    /\ UNCHANGED <<validatorVars, search, gen, expr>>

PrinterToString ==
    /\ Len(printer.ops) < MaxOps
    /\ printer' = toString(logCall(printer, "toString"))
    /\ UNCHANGED <<validatorVars, search, gen, expr>>

NextPrinter ==
    \/ \E isCode \in BOOLEAN : PrinterSetCodeMode(isCode)
    \/ PrinterAppendPre
    \/ PrinterAppend
    \/ PrinterAppendPost
    \/ PrinterFlush
    \/ PrinterEndStatement
    \/ PrinterToString

SpecPrinter == Init /\ [][NextPrinter]_vvars

(***************************************************************************)
(* The regions of a printer, and what the calls made on one should give.   *)
(***************************************************************************)
regionBuffer(p, isCode) == IF isCode THEN p.stmts ELSE p.pre

regionStatement(p, isCode) == IF isCode THEN p.currentStmt ELSE p.currentPre

kindOfCall(op) ==
    CASE op = "appendPre" -> "pre"
      [] op = "append" -> "now"
      [] op = "endStatement" -> "end"
      [] op = "appendPost" -> "post"
      [] OTHER -> "none"

\* the texts of the kinds given to region isCode by the calls lo..hi, in
\* call order
RECURSIVE given(_, _, _, _, _)
given(p, isCode, lo, hi, kinds) ==
    IF lo > hi THEN <<>>
    ELSE (IF p.ops[lo].isCode = isCode /\ kindOfCall(p.ops[lo].op) \in kinds
          THEN <<<<kindOfCall(p.ops[lo].op), lo>>>> ELSE <<>>)
         \o given(p, isCode, lo + 1, hi, kinds)

flushesRegion(o, isCode) ==
    \/ o.op = "toString"
    \/ o.op \in {"flush", "endStatement"} /\ o.isCode = isCode

\* what the flushes among the calls i.. should have put into region
\* isCode, the calls since the flush before being lo..
RECURSIVE flushed(_, _, _, _)
flushed(p, isCode, lo, i) ==
    IF i > Len(p.ops) THEN <<>>
    ELSE IF flushesRegion(p.ops[i], isCode)
         THEN given(p, isCode, lo, i, {"pre"})
              \o given(p, isCode, lo, i, {"now", "end"})
              \o given(p, isCode, lo, i, {"post"})
              \o flushed(p, isCode, i + 1, i + 1)
         ELSE flushed(p, isCode, lo, i + 1)

\* C25: when a flush() or an endStatement() of a region returns, what the
\* buffer of the region has received between each flush and the one
\* before is the appendPre texts given in between, in call order, then the
\* append texts, then the appendPost texts, nothing twice, and nothing is
\* left pending in the region.
C25_FlushContract ==
    \A isCode \in BOOLEAN :
        (/\ printer.ops # <<>>
         /\ printer.ops[Len(printer.ops)].op \in {"flush", "endStatement"}
         /\ printer.ops[Len(printer.ops)].isCode = isCode)
        => /\ regionBuffer(printer, isCode) = flushed(printer, isCode, 1, 1)
           /\ regionStatement(printer, isCode) = newPrinterStatement

\* a flush of a region that was given, since the flush before, a post
\* text, then a now text, then a pre text
C25_Witness ==
    \E isCode \in BOOLEAN :
        LET n == Len(printer.ops)
            buf == regionBuffer(printer, isCode)
            m == Len(buf)
        IN  /\ n >= 4
            /\ printer.ops[n].op = "flush"
            /\ printer.ops[n].isCode = isCode
            /\ m >= 3
            /\ buf[m - 2][1] = "pre" /\ buf[m - 1][1] = "now"
            /\ buf[m][1] = "post"
            /\ buf[m][2] < buf[m - 1][2] /\ buf[m - 1][2] < buf[m - 2][2]
            /\ \A i \in buf[m][2]..(n - 1) :
                  ~flushesRegion(printer.ops[i], isCode)

(***************************************************************************)
(* SpecScope: programs of declarations of one function, blocks and         *)
(* assignments to local variables.                                         *)
(***************************************************************************)
ScopeNodes(V, F) ==
    \/ \E f \in F, ps \in ParamSets(V) : FunctionValidate(f, ps)
    \/ FunctionEnd
    \/ \E ps \in ParamSets(V) : FunctionBlockValidate(ps)
    \/ FunctionBlockEnd
    \/ \E id \in V : AssignmentValidate(id)

NextScope ==
    \/ ValidateProgram("a.q")
    \/ ProgramReturns
    \/ ScopeNodes(VarNames, {"f"})

SpecScope == Init /\ [][NextScope]_vvars

(***************************************************************************)
(* SpecRead: programs of function declarations, blocks and assignments     *)
(* over one variable name, with reads of it nested in the expression       *)
(* shapes.                                                                 *)
(***************************************************************************)
NextRead ==
    \/ ValidateProgram("a.q")
    \/ ProgramReturns
    \/ ScopeNodes({"x"}, FunNames)
    \/ \E shape \in ReadShapes : ReadValidate("x", shape)

SpecRead == Init /\ [][NextRead]_vvars

(***************************************************************************)
(* SpecBind: programs of classes with methods, functions and calls, and    *)
(* finalizeProgram at the end of the session.  Classes are declared at the *)
(* top level of a program.                                                 *)
(***************************************************************************)
Finalize ==
    \/ EndValidateFuns
    \/ EndValidateClass
    \/ EndValidateMethods
    \/ EndValidateLate
    \/ EndValidateCallback
    \/ EndValidateReturns
    \/ EndValidateCatch
    \/ FinalizeProgramReturns

BindNodes ==
    \/ \E c \in ClassNames, sup \in SuperNames :
          /\ ctx = <<>>
          /\ c = "B" => "A" \in Range(classKeys)
          /\ ClassValidate(c, sup)
    \/ ClassEnd
    \/ \E f \in FunNames :
          /\ ~isInsideFun
          /\ ~isInsideClass => f = "f"
          /\ FunctionValidate(f, {})
    \/ FunctionEnd
    \/ \E cn \in CallNames : ~isInsideClassDefinition /\ CallValidate(cn)
    \/ /\ ctx = <<>>
       /\ endValidateCallbacks = <<>>
       /\ NewInstanceValidate("A", 0)

NextBind ==
    \/ nsub = 0 /\ ValidateProgram("a.q")
    \/ ProgramReturns
    \/ BindNodes
    \/ Finalize

SpecBind == Init /\ [][NextBind]_vvars

(***************************************************************************)
(* SpecFree: sessions of programs that declare function f and call f and   *)
(* g outside classes, next to classes with a method m that makes calls.   *)
(***************************************************************************)
FreeNodes ==
    \/ \E c \in ClassNames, sup \in SuperNames :
          /\ ctx = <<>>
          /\ c = "B" => "A" \in Range(classKeys)
          /\ ClassValidate(c, sup)
    \/ ClassEnd
    \/ /\ ~isInsideFun
       /\ FunctionValidate(IF isInsideClass THEN "m" ELSE "f", {})
    \/ FunctionEnd
    \/ \E cn \in CallNames : ~isInsideClassDefinition /\ CallValidate(cn)
    \/ /\ ctx = <<>>
       /\ endValidateCallbacks = <<>>
       /\ NewInstanceValidate("A", 0)

NextFree ==
    \/ ValidateProgram("a.q")
    \/ ProgramReturns
    \/ FreeNodes
    \/ Finalize

SpecFree == Init /\ [][NextFree]_vvars

(***************************************************************************)
(* Spec: whole sessions.  Submissions with parse errors, without a         *)
(* program, or with a program of classes, methods, calls and new           *)
(* instances that may throw at any node, and finalizeProgram.              *)
(***************************************************************************)
SessionNodes ==
    \/ \E c \in ClassNames, sup \in SuperNames :
          /\ ctx = <<>>
          /\ c = "B" => "A" \in Range(classKeys)
          /\ ClassValidate(c, sup)
    \/ ClassEnd
    \/ isInsideClassDefinition /\ FunctionValidate("m", {})
    \/ FunctionEnd
    \/ isInsideFun /\ CallValidate("g")
    \/ ThisCallValidate("g")
    \/ /\ ctx = <<>>
       /\ endValidateCallbacks = <<>>
       /\ NewInstanceValidate("A", 0)
    \/ NodeThrows

Next ==
    \/ \E n \in 1..MaxParseErrors : ValidateParseErrors(n)
    \/ \E strict \in BOOLEAN : ValidateNoProgram(strict)
    \/ ValidateProgram("a.q")
    \/ ProgramReturns
    \/ SessionNodes
    \/ Finalize

Spec == Init /\ [][Next]_vvars

(***************************************************************************)
(* SpecFin: one program of classes A and B with a method m that calls g    *)
(* without receiver and on this, calls of methods on a literal, global     *)
(* variables and new instances, and finalizeProgram.                       *)
(***************************************************************************)
FinNodes ==
    \/ \E c \in ClassNames, sup \in SuperNames :
          /\ ctx = <<>>
          /\ c = "B" => "A" \in Range(classKeys)
          /\ c \notin Range(classKeys)
          /\ ClassValidate(c, sup)
    \/ ClassEnd
    \/ isInsideClassDefinition /\ FunctionValidate("m", {})
    \/ FunctionEnd
    \/ isInsideFun /\ calls = <<>> /\ CallValidate("g")
    \/ ThisCallValidate("g")
    \/ \E cn \in MethodNames : ctx = <<>> /\ MethodCallValidate(cn)
    \/ \E g \in GlobalNames : ctx = <<>> /\ GlobalVariableValidate(g, TRUE)
    \/ \E c \in ClassNames, n \in 0..MaxArity :
          ctx = <<>> /\ NewInstanceValidate(c, n)

NextFin ==
    \/ nsub = 0 /\ ValidateProgram("a.q")
    \/ ProgramReturns
    \/ FinNodes
    \/ Finalize

SpecFin == Init /\ [][NextFin]_vvars

(***************************************************************************)
(* SpecClass: one program that declares the classes A and B and the core   *)
(* class Array, each any number of times, with or without a super class    *)
(* (A, B or C, which is never declared),                                   *)
(* with constructors of up to MaxArity parameters and a method m in their  *)
(* bodies, which may assign the field @v; then finalizeProgram.  Array is  *)
(* declared before A only and B after A only, and the program makes no     *)
(* new instances: the callbacks loop has nothing to run.                   *)
(***************************************************************************)
RECURSIVE parametersOf(_)
parametersOf(n) ==
    IF n = 0 THEN {}
    ELSE LET ps == parametersOf(n - 1)
         IN  IF VarNames \subseteq ps THEN ps
             ELSE ps \cup {CHOOSE v \in VarNames \ ps : TRUE}

ClassNodes ==
    \/ \E c \in ClassNames, sup \in SuperNames \cup UndeclaredClassNames :
          /\ ctx = <<>>
          /\ c = "B" => "A" \in Range(classKeys)
          /\ ClassValidate(c, sup)
    \/ \E c \in CoreClassNames :
          /\ ctx = <<>>
          /\ "A" \notin Range(classKeys)
          /\ ExtensionClassValidate(c, NoSuper)
    \/ ClassEnd
    \/ \E n \in 0..MaxArity :
          /\ ctx = <<>> \/ isInsideClassDefinition
          /\ ConstructorValidate(parametersOf(n))
    \/ isInsideClassDefinition /\ FunctionValidate("m", {})
    \/ \E f \in FieldNames :
          /\ isInsideClass /\ isInsideFun
          /\ f \notin classes[currentClass].assignedFields
          /\ FieldVariableValidate(f, TRUE)
    \/ FunctionEnd

FinalizeClasses ==
    \/ EndValidateFuns
    \/ EndValidateClass
    \/ EndValidateMethods
    \/ EndValidateLate
    \/ EndValidateReturns
    \/ FinalizeProgramReturns

NextClass ==
    \/ nsub = 0 /\ ValidateProgram("a.q")
    \/ ProgramReturns
    \/ ClassNodes
    \/ FinalizeClasses

SpecClass == Init /\ [][NextClass]_vvars

(***************************************************************************)
(* SpecField: one program that declares the classes A and B once each, B   *)
(* after A, with or without a super class, with a method m whose body      *)
(* reads the field @v or assigns to it; then finalizeProgram.              *)
(***************************************************************************)
FieldNodes ==
    \/ \E c \in ClassNames, sup \in SuperNames :
          /\ ctx = <<>>
          /\ c = "B" => "A" \in Range(classKeys)
          /\ c \notin Range(classKeys)
          /\ ClassValidate(c, sup)
    \/ ClassEnd
    \/ /\ isInsideClassDefinition
       /\ "m" \notin classes[currentClass].funs
       /\ FunctionValidate("m", {})
    \/ \E f \in FieldNames, isAssignmentFlag \in BOOLEAN :
          /\ isInsideClass /\ isInsideFun
          /\ f \notin (IF isAssignmentFlag
                        THEN classes[currentClass].fieldWrites
                        ELSE classes[currentClass].fieldReads)
          /\ FieldVariableValidate(f, isAssignmentFlag)
    \/ FunctionEnd

NextField ==
    \/ nsub = 0 /\ ValidateProgram("a.q")
    \/ ProgramReturns
    \/ FieldNodes
    \/ FinalizeClasses

SpecField == Init /\ [][NextField]_vvars

(***************************************************************************)
(* SpecErrors: sessions of submissions with parse errors, without a        *)
(* program, or with a program from one of two sources whose statements,    *)
(* on one or two lines, read a variable, call a function g that is never   *)
(* declared, or throw; finalizeProgram, and getErrors after it.  The       *)
(* programs have no classes and no new instances: the other steps of       *)
(* finalize have nothing to run.                                           *)
(***************************************************************************)
FinalizeNoClasses ==
    \/ EndValidateFuns
    \/ EndValidateMethods
    \/ EndValidateLate
    \/ EndValidateReturns
    \/ FinalizeProgramReturns

NextErrors ==
    \/ \E n \in 1..MaxParseErrors : ValidateParseErrors(n)
    \/ \E strict \in BOOLEAN : ValidateNoProgram(strict)
    \/ \E src \in SourceNames : ValidateProgram(src)
    \/ ProgramReturns
    \/ NextLine
    \/ ReadValidate("x", "var")
    \/ CallValidate("g")
    \/ NodeThrows
    \/ FinalizeNoClasses
    \/ pc = "finalized" /\ GetErrors

SpecErrors == Init /\ [][NextErrors]_vvars

(***************************************************************************)
(* SpecGlobal: sessions of up to MaxSubmissions programs from one of two   *)
(* sources whose statements, on one or two lines, read the global $g or    *)
(* assign to it; then finalizeProgram.                                     *)
(***************************************************************************)
NextGlobal ==
    \/ \E src \in SourceNames : ValidateProgram(src)
    \/ ProgramReturns
    \/ NextLine
    \/ \E g \in GlobalNames, isAssignmentFlag \in BOOLEAN :
          /\ g \notin (IF isAssignmentFlag THEN globalWrites
                        ELSE globalReads)
          /\ GlobalVariableValidate(g, isAssignmentFlag)
    \/ FinalizeNoClasses

SpecGlobal == Init /\ [][NextGlobal]_vvars

(***************************************************************************)
(* Properties.                                                             *)
(***************************************************************************)

\* C1 (Spec): finalizeProgram is all-or-nothing.  Nothing is printed and
\* nothing is returned before it returns; when it has returned, with at
\* least one diagnostic accumulated it returned the empty string and
\* printed no program, and with none it returned the code of all the
\* programs of the list, which are in submission order.
C1_AllOrNothing ==
    /\ pc # "finalized" => output = "none" /\ printed = <<>>
    /\ pc = "finalized" =>
          IF Len(errors) > 0
          THEN output = "" /\ printed = <<>>
          ELSE output = "code" /\ printed = programs
    /\ \A i, j \in 1..Len(programs) : i < j => programs[i] < programs[j]
    /\ \A i \in 1..Len(programs) : programs[i] \in 1..nsub

C1_Witness ==
    pc = "finalized" /\ output = "code" /\ Len(printed) = 2

\* C2 (SpecScope): containsVar inside a function is true exactly for the
\* names assigned in a frame pushed by or after that function's
\* pushFunScope and still on the stack, and outside any function exactly
\* for the names in any frame of the stack.
C2_ContainsVarVisibility ==
    \A id \in VarNames :
        containsVar(id) <=>
            IF currentFun # NoFun
            THEN \E i \in 1..Len(vars) : frameInFun[i] /\ id \in vars[i]
            ELSE \E i \in 1..Len(vars) : id \in vars[i]

C2_Witness ==
    /\ currentFun # NoFun
    /\ Len(vars) >= 3
    /\ "x" \in vars[1]
    /\ ~containsVar("x")
    /\ "y" \in vars[Len(vars)]
    /\ containsVar("y")

\* C3 (SpecRead): no scope leakage between functions.  When a function is
\* left, the visible names are those of the frames pushed before it was
\* entered; when a function is entered, only the names of its own new
\* frame (its parameters) are visible; and a read of a name inside a
\* function none of whose frames holds it reports 'used before assigned',
\* whatever other functions assigned before.
C3_NoScopeLeakage ==
    [][ /\ (currentFun # NoFun /\ currentFun' = NoFun) =>
              \A id \in VarNames :
                  containsVar(id)' =>
                      \E i \in 1..Len(vars) : ~frameInFun[i] /\ id \in vars[i]
        /\ (currentFun = NoFun /\ currentFun' # NoFun) =>
              /\ Len(vars') = Len(vars) + 1
              /\ \A id \in VarNames :
                     containsVar(id)' => id \in vars'[Len(vars')]
        /\ ( /\ ev'.op = "read"
             /\ ev'.b \in {"var", "op", "single", "paren", "return", "cond"}
             /\ currentFun # NoFun
             /\ ~ \E i \in 1..Len(vars) : frameInFun[i] /\ ev'.a \in vars[i] ) =>
              /\ Len(errors') = Len(errors) + 1
              /\ errors'[Len(errors')] = Diag("usedBeforeAssigned", ev'.a)
      ]_vvars

C3_Witness ==
    /\ currentFun = [name |-> "m", type |-> "function"]
    /\ funs = {"f", "m"}
    /\ preVars = <<"x">>
    /\ ev = Ev("read", "x", "var")
    /\ errors = <<Diag("usedBeforeAssigned", "x")>>

\* C4 (SpecRead): every read of a local variable that is assigned in no
\* visible scope adds a 'used before assigned' diagnostic, whatever
\* expression the read is nested in.
C4_EveryUnassignedReadReported ==
    [][ (ev'.op = "read" /\ ~containsVar(ev'.a)) =>
            \E i \in (Len(errors) + 1)..Len(errors') :
                errors'[i] = Diag("usedBeforeAssigned", ev'.a)
      ]_vvars

\* The classes of the super class chain of c: c and every class reached
\* over the super classes declared in the headers.
RECURSIVE chainOf(_, _)
chainOf(S, n) ==
    IF n = 0 THEN S
    ELSE chainOf(S \cup {classes[d].sup : d \in S \cap Range(classKeys)}, n - 1)

inChain(c, cn) ==
    \E d \in chainOf({c}, Cardinality(ClassNames)) \cap Range(classKeys) :
        cn \in classes[d].funs

diagsAt(errs, site) == {i \in 1..Len(errs) : errs[i].site = site}

\* C5 (SpecBind): late binding is order-independent.  After finalize, a
\* call without receiver made inside class C whose target C or a class of
\* C's super class chain declares as a method is flagged as a method call
\* and has no diagnostic, whether the declaration came before or after it.
C5_LateBindingOrderIndependent ==
    pc = "finalized" =>
        \A i \in 1..Len(calls) :
            (calls[i].cls # NoClass /\ inChain(calls[i].cls, calls[i].cn)) =>
                calls[i].isMethod /\ diagsAt(errors, i) = {}

\* C6 (SpecBind): the late binder gives every bucket one of three
\* outcomes: (a) target in the hierarchy of the class: every call of the
\* bucket is flagged, no diagnostic; (b) not in the hierarchy, a function
\* of that call name exists: nothing flagged, no diagnostic; (c) neither:
\* one diagnostic per call of the bucket, nothing flagged.
C6_LateBinderOutcomes ==
    [][ (pc = "endValidateLate" /\ pc' # pc) =>
          LET new == SubSeq(errors', Len(errors) + 1, Len(errors'))
          IN  \A c \in Range(lateKeys) :
              \A k \in 1..Len(lateFuns[c]) :
                  LET b == lateFuns[c][k]
                  IN  \A j \in 1..Len(b.sites) :
                          LET i == b.sites[j]
                          IN  IF inChain(c, b.cn)
                              THEN calls'[i].isMethod /\ diagsAt(new, i) = {}
                              ELSE IF b.cn \in funs
                                   THEN /\ ~calls'[i].isMethod
                                        /\ diagsAt(new, i) = {}
                                   ELSE /\ ~calls'[i].isMethod
                                        /\ Cardinality(diagsAt(new, i)) = 1
      ]_vvars

\* C7 (SpecFree): after finalize a call outside any class has no
\* diagnostic when a function of its call name was declared anywhere in
\* the session, and exactly one when none was.
C7_FreeFunctionForwardReferences ==
    pc = "finalized" =>
        \A i \in 1..Len(calls) :
            calls[i].cls = NoClass =>
                IF calls[i].cn \in funs
                THEN diagsAt(errors, i) = {}
                ELSE Cardinality(diagsAt(errors, i)) = 1

C7_Witness ==
    /\ pc = "finalized"
    /\ nsub = 2
    /\ usedFunsStack = <<1, 2>>
    /\ calls[1] = [cn |-> "f", cls |-> NoClass, isMethod |-> FALSE,
                   sym |-> [src |-> "a.q", line |-> 1]]
    /\ calls[2] = [cn |-> "g", cls |-> NoClass, isMethod |-> FALSE,
                   sym |-> [src |-> "a.q", line |-> 1]]
    /\ funs = {"f"}
    /\ errors = <<[kind |-> "undefinedFunction", ref |-> "g", site |-> 2,
                   name |-> "a.q", line |-> 1]>>

\* C8 (Spec): validate with n >= 1 parse errors adds exactly n
\* diagnostics, one per parse error and in their order, runs no node of
\* the program, changes no scope, class or function table and leaves the
\* list of programs to print as it is.
C8_ParseErrorsOnly ==
    [][ ev'.op = "validateParseErrors" =>
          /\ \E n \in 1..MaxParseErrors :
                /\ Len(errors') = Len(errors) + n
                /\ SubSeq(errors', 1, Len(errors)) = errors
                /\ \A i \in 1..n :
                       errors'[Len(errors) + i] =
                           [kind |-> "parse", ref |-> "", site |-> i,
                            name |-> NoName, line |-> i]
          /\ pc' = "idle"
          /\ UNCHANGED <<ctx, programs, funs>>
          /\ UNCHANGED scopeVars
          /\ UNCHANGED bindVars
          /\ UNCHANGED finVars
      ]_vvars

C8_Witness ==
    /\ ev.op = "validateParseErrors"
    /\ nsub = 2
    /\ programs = <<1>>
    /\ classKeys # <<>>
    /\ Len(errors) = 2
    /\ errors[2] = [kind |-> "parse", ref |-> "", site |-> 2,
                    name |-> NoName, line |-> 2]

crashes(errs) == {i \in 1..Len(errs) : errs[i].kind = "crash"}

\* C9 (Spec): failure boundary.  A throw of a node during validate and a
\* throw of a step during finalize are caught: exactly one crash
\* diagnostic is appended to the diagnostics reported before, the
\* program that threw does not join the list of programs to print, and
\* validate can be called for the next submission.
C9_FailureBoundary ==
    [][ /\ ev'.op = "nodeThrows" =>
              /\ errors' = Append(errors, Diag("crash", ""))
              /\ programs' = programs
              /\ pc' = "idle"
              /\ nsub' < MaxSubmissions => (ENABLED ValidateProgram("a.q"))'
        /\ pc = "endValidateCatch" =>
              /\ errors' = Append(errors, Diag("crash", ""))
              /\ programs' = programs
              /\ pc' = "finalizeReturn"
      ]_vvars

C9_Witness ==
    /\ pc = "finalized"
    /\ ev.op = "endValidateCatch"
    /\ nsub = 2
    /\ programs = <<2>>
    /\ Cardinality(crashes(errors)) = 2

stepRank(st) ==
    CASE st.step = "funs" -> 1
      [] st.step = "globals" -> 2
      [] st.step = "class" -> 3
      [] st.step = "methods" -> 4
      [] st.step = "late" -> 5
      [] st.step = "callback" -> 6

classSteps == SelectSeq(steps, LAMBDA st : st.step = "class")

\* C11 (SpecFin): finalize runs its steps in one fixed order: the calls of
\* functions that were pending, the globals, endValidate of every class
\* in the order of the class table, the called methods, the late function
\* binder, the callbacks.  No step runs twice, and the late binder and the
\* callbacks run only when every class of the table has completed its
\* endValidate.
C11_FinalizeStepOrder ==
    /\ \A i, j \in 1..Len(steps) :
           i < j => /\ stepRank(steps[i]) <= stepRank(steps[j])
                    /\ stepRank(steps[i]) = stepRank(steps[j]) =>
                           steps[i].step \in {"class", "callback"}
    /\ Len(classSteps) <= Len(classKeys)
    /\ \A i \in 1..Len(classSteps) : classSteps[i].of = classKeys[i]
    /\ (\E i \in 1..Len(steps) : steps[i].step \in {"late", "callback"}) =>
           /\ Len(classSteps) = Len(classKeys)
           /\ \E i \in 1..Len(steps) : steps[i].step = "methods"
    /\ pc \in {"endValidateLate", "endValidateCallbacks"} =>
           Len(classSteps) = Len(classKeys)
    /\ pc = "endValidateCallbacks" =>
           /\ \E i \in 1..Len(steps) : steps[i].step = "late"
           /\ Len(steps) = 4 + Len(classKeys) + Len(ran)
    /\ steps # <<>> =>
           Len(steps) >= 2 /\ steps[1].step = "funs"
                           /\ steps[2].step = "globals"

C11_Witness ==
    /\ pc = "finalized"
    /\ Len(classSteps) = 2
    /\ Len(ran) = 2
    /\ Len(steps) = 8
    /\ Len(errors) >= 3
    /\ errors[1].kind = "undefinedMethod"
    /\ errors[2].kind = "methodNotInAnyClass"
    /\ errors[3].kind = "undefinedInClassOrFunction"
    /\ errors[Len(errors)].kind = "wrongConstructorParameters"

\* C12 (SpecFin): the callbacks registered with onEndValidate during
\* validation are invoked by finalize in the order of their registration,
\* each exactly once, and the list of callbacks is empty when endValidate
\* has returned.
C12_CallbacksFifoOnce ==
    [][ (pc # "finalizeReturn" /\ pc' = "finalizeReturn") =>
            /\ ran' = endValidateCallbacks
            /\ endValidateCallbacks' = <<>>
      ]_vvars

countIn(errs, e) == Cardinality({i \in 1..Len(errs) : errs[i] = e})

\* a comes before b in the order by (source name, line)
inOrder(a, b) ==
    \/ nameRank(a.name) < nameRank(b.name)
    \/ a.name = b.name /\ a.line <= b.line

\* C13 (SpecErrors): getErrors returns a permutation of the diagnostics
\* accumulated, none dropped and none twice, ordered by (source name,
\* line): of two consecutive entries either the name of the first sorts
\* before the name of the second, or the names are equal and the line of
\* the first is not greater.
C13_SortedPermutation ==
    [][ ev'.op = "getErrors" =>
            /\ ev'.a = "returned"
            /\ Len(errors') = Len(errors)
            /\ \A i \in 1..Len(errors) :
                   countIn(errors', errors[i]) = countIn(errors, errors[i])
            /\ \A i \in 1..(Len(errors') - 1) :
                   inOrder(errors'[i], errors'[i + 1])
      ]_vvars

\* C14 (SpecErrors): getErrors returns, and does not throw, for every list
\* of diagnostics a session can accumulate, also when diagnostics without
\* a source name stand next to diagnostics with one.
C14_GetErrorsNeverThrows ==
    ev.op = "getErrors" => ev.a = "returned"

\* the kinds of diagnostics reported without a source name: the parse
\* errors handed to validate, and those of parseError(null, ...)
unnamedKinds == {"parse", "noSource", "crash"}

\* the name of the last entry with a name among errs[lo], .., errs[k - 1]
lastNamedBefore(errs, lo, k) ==
    LET named == {i \in lo..(k - 1) : errs[i].name # NoName}
    IN  IF named = {} THEN NoName
        ELSE errs[CHOOSE i \in named : \A j \in named : j <= i].name

\* C15 as stated (SpecErrors): a diagnostic reported without a source
\* name is recorded under the name of the diagnostic reported last with
\* one, whenever the session has reported such a diagnostic before.
C15_InheritsLastNameOfSession ==
    [][ \A k \in (Len(errors) + 1)..Len(errors') :
            ( /\ errors'[k].kind \in unnamedKinds
              /\ lastNamedBefore(errors', 1, k) # NoName ) =>
                errors'[k].name = lastNamedBefore(errors', 1, k)
      ]_vvars

\* C15, amended (SpecErrors): a diagnostic reported without a source name
\* is recorded under the name of the diagnostic reported last with one
\* since the validate() called last was entered, and without a name when
\* there is none: validate() clears lastErrorName on entry.
C15_InheritsLastNameOfSubmission ==
    [][ \A k \in (Len(errors) + 1)..Len(errors') :
            errors'[k].kind \in unnamedKinds =>
                errors'[k].name = lastNamedBefore(errors', errBase' + 1, k)
      ]_vvars

C15_Witness ==
    /\ pc = "idle"
    /\ nsub = 2
    /\ Len(errors) = 3
    /\ errors[1] = [kind |-> "usedBeforeAssigned", ref |-> "x", site |-> 0,
                    name |-> "b.q", line |-> 2]
    /\ errors[2] = [kind |-> "crash", ref |-> "", site |-> 0,
                    name |-> "b.q", line |-> -1]
    /\ errors[3] = [kind |-> "crash", ref |-> "", site |-> 0,
                    name |-> NoName, line |-> -1]

circularDiagnostics(errs) ==
    {i \in 1..Len(errs) : errs[i].kind = "circularInheritance"}

\* C16 (SpecFin): with the classes A and B declared, A extending B and B
\* extending A, a finalize that has returned has reported exactly one
\* diagnostic of circular inheritance in total.
C16_OneCircularDiagnostic ==
    ( /\ pc = "finalized"
      /\ {"A", "B"} \subseteq Range(classKeys)
      /\ classes["A"].sup = "B"
      /\ classes["B"].sup = "A" ) =>
        Cardinality(circularDiagnostics(errors)) = 1

\* C17 (SpecFin): hasFunInHierarchy ends with a boolean for every declared
\* class and every call name, whatever the class table, also when the
\* super classes form a cycle in which no class declares the function.
C17_HasFunInHierarchyTerminates ==
    \A c \in Range(classKeys) : \A cn \in CallNames :
        hasFunInHierarchy(classes, classKeys, c, cn) \in {"true", "false"}

countKind(errs, kind) ==
    Cardinality({i \in 1..Len(errs) : errs[i].kind = kind})

\* C18 (SpecClass): a constructor declared in a class body is kept under
\* its number of parameters in the record of the class; the declaration
\* adds one diagnostic of a duplicate constructor when the class, in this
\* or an earlier declaration of it, has a constructor with that number of
\* parameters, and none when it has not.
C18_ConstructorsKeyedByArity ==
    [][ ev'.op = "addNew" =>
            LET c == ev'.a
                n == ev'.b
            IN  /\ classes'[c].news = classes[c].news \cup {n}
                /\ countKind(errors', "duplicateConstructor") =
                       countKind(errors, "duplicateConstructor")
                       + (IF n \in classes[c].news THEN 1 ELSE 0)
      ]_vvars

C18_Witness ==
    /\ ev = Ev("addNew", "A", 0)
    /\ classes["A"].news = {0, 1}
    /\ countKind(errors, "duplicateConstructor") = 1
    /\ ctx = <<"class", "fun">>

\* C19 (SpecClass): the class table has one record per class name.  A
\* record keeps the methods, constructors and fields it has, and a method
\* or constructor declared in any declaration of the class joins it.  A
\* declaration of a class that has a record gives the record its super
\* class only when the record has none, and adds the diagnostic of a
\* redefined super class exactly when both name a super class and the
\* two differ.
C19_OneRecordPerClass ==
    [][ /\ \A i, j \in 1..Len(classKeys') :
              classKeys'[i] = classKeys'[j] => i = j
        /\ \A c \in Range(classKeys) :
              /\ c \in Range(classKeys')
              /\ classes[c].funs \subseteq classes'[c].funs
              /\ classes[c].news \subseteq classes'[c].news
              /\ classes[c].assignedFields \subseteq classes'[c].assignedFields
        /\ ( /\ currentClass # NoClass
             /\ Len(ctx') = Len(ctx) + 1
             /\ ctx'[Len(ctx')] = "fun" ) =>
                IF ev'.op = "addNew"
                THEN ev'.b \in classes'[currentClass].news
                ELSE currentFun'.name \in classes'[currentClass].funs
        /\ ev'.op = "setClass" =>
              LET c == ev'.a
                  sup == ev'.b
                  known == c \in Range(classKeys)
                  old == classes[c].sup
              IN  /\ c \in Range(classKeys')
                  /\ known =>
                        classes'[c] =
                            [classes[c] EXCEPT
                                !.sup = IF old = NoSuper THEN sup ELSE old]
                  /\ countKind(errors', "superRedefined") =
                         countKind(errors, "superRedefined")
                         + (IF /\ known
                               /\ old # NoSuper
                               /\ sup # NoSuper
                               /\ sup # old
                            THEN 1 ELSE 0)
      ]_vvars

C19_Witness ==
    /\ ev = Ev("setClass", "A", "C")
    /\ classKeys = <<"A", "B">>
    /\ classes["A"].sup = "B"
    /\ classes["A"].funs = {"m"}
    /\ classes["A"].news = {0, 1}
    /\ classes["A"].assignedFields = {"@v"}
    /\ countKind(errors, "superRedefined") = 1

\* C20 (SpecFin, whose classes declare no constructor): when finalize has
\* returned, every declared class that is not an extension class has
\* exactly the constructor without parameters and an extension class has
\* none; every instantiation was checked, and an instantiation of such a
\* class has left no diagnostic when it has no arguments and exactly one
\* when it has some, wherever it stands in the program.
C20_DefaultConstructor ==
    pc = "finalized" =>
        /\ \A c \in Range(classKeys) :
              classes[c].news = IF classes[c].ext THEN {} ELSE {0}
        /\ \A i \in 1..Len(ran) :
              ran[i].cls \in Range(classKeys) /\ ~classes[ran[i].cls].ext =>
                  Cardinality({k \in 1..Len(errors) :
                                  /\ errors[k].kind \in
                                         {"wrongConstructorParameters",
                                          "noConstructor"}
                                  /\ errors[k].ref = ran[i].cls
                                  /\ errors[k].line = ran[i].sym.line}) =
                      Cardinality({j \in 1..Len(ran) :
                                      /\ ran[j].cls = ran[i].cls
                                      /\ ran[j].sym.line = ran[i].sym.line
                                      /\ ran[j].n > 0})
        /\ endValidateCallbacks = <<>>

fieldDiagnostics(errs, f) ==
    {k \in 1..Len(errs) :
        /\ errs[k].kind \in {"fieldOfSuperClass", "fieldNeverAssigned"}
        /\ errs[k].ref = f}

\* the classes with a node that reads the field f and none that assigns
\* to it
readsUnassigned(f) ==
    {c \in Range(classKeys) :
        f \in classes[c].fieldReads /\ f \notin classes[c].fieldWrites}

\* C21 (SpecField): when finalize has returned, every class with a method
\* that reads a field and with no node that assigns to it has left one
\* diagnostic for the field, and the classes that assign to it none: the
\* diagnostics for a field are as many as the classes that read it
\* without assigning to it.
C21_UnassignedFieldReported ==
    pc = "finalized" =>
        \A f \in FieldNames :
            Cardinality(fieldDiagnostics(errors, f)) =
                Cardinality(readsUnassigned(f))

globalDiagnostics(errs, g) ==
    {k \in 1..Len(errs) :
        errs[k].kind = "globalNeverAssigned" /\ errs[k].ref = g}

\* C22 (SpecGlobal): when finalize has returned, a global that a program
\* of the session reads and no program of the session assigns to has a
\* diagnostic of a global used and never assigned to, and a global that
\* some program assigns to has none.
C22_UnassignedGlobalReported ==
    pc = "finalized" =>
        \A g \in GlobalNames :
            /\ (g \in globalReads /\ g \notin globalWrites) =>
                   globalDiagnostics(errors, g) # {}
            /\ g \in globalWrites => globalDiagnostics(errors, g) = {}

\* the functions of the tables searched
candidates == UNION {Range(search.tables[i]) : i \in 1..Len(search.tables)}

sameName == \E c \in candidates : toLowerCase(c) = toLowerCase(search.name)

alternativeName ==
    \E c \in candidates : toLowerCase(c) \in altNames(toLowerCase(search.name))

\* C23 (SpecSearch): the search for a missing function finds a function of
\* the same name in lower case whenever a table searched has one, and
\* the diagnostic is then the one of a wrong number of parameters; it
\* finds a get/set alternative only when there is none of the same name,
\* and nothing only when there is neither; the order of the functions
\* and of the classes does not change which of the three it is.
C23_SearchPriority ==
    search.op # "none" =>
        search.kind = IF sameName THEN "wrongParameters"
                      ELSE IF alternativeName THEN "alternative"
                           ELSE "undefined"

\* C24 (SpecScope): when the scope of a function is left, its list of
\* pre-variables holds the variables of the frames popped inside the
\* function that the root frame of the function lacks, each of them once
\* and no other, and the record of the popped frames is empty.
C24_PreVariablesHoisted ==
    [][ (isInsideFun /\ funCount = 1 /\ funCount' = 0) =>
            LET rootFVars == vars[Len(vars)]
                inner == UNION {funVars[i] : i \in 1..Len(funVars)}
            IN  /\ Range(preVars') = inner \ rootFVars
                /\ Len(preVars') = Cardinality(inner \ rootFVars)
                /\ funVars' = <<>>
      ]_vvars

\* the statement of a region that the text of call n belongs to: the
\* number of endStatement() calls made on the region before call n
statementOf(p, isCode, n) ==
    Cardinality({k \in 1..(n - 1) : /\ p.ops[k].op = "endStatement"
                                    /\ p.ops[k].isCode = isCode})

slotRank(kind) ==
    CASE kind = "pre" -> 1
      [] kind \in {"now", "end"} -> 2
      [] kind = "post" -> 3

\* C26: when an endStatement() of a region returns, in the text the region
\* has received for each statement (from one endStatement() to the next)
\* every appendPre text precedes every append text, and every appendPost
\* text follows them, whether or not flush() was called in between.
C26_StatementOrdering ==
    \A isCode \in BOOLEAN :
        (/\ printer.ops # <<>>
         /\ printer.ops[Len(printer.ops)].op = "endStatement"
         /\ printer.ops[Len(printer.ops)].isCode = isCode)
        => LET buf == regionBuffer(printer, isCode)
           IN  \A i, j \in 1..Len(buf) :
                   (/\ i < j
                    /\ statementOf(printer, isCode, buf[i][2])
                         = statementOf(printer, isCode, buf[j][2]))
                   => slotRank(buf[i][1]) <= slotRank(buf[j][1])

\* C27: what toString() returns is the text of the pre-code region followed
\* by the text of the statement region, each being the texts given while
\* its mode was active, in the order its flushes emit them, the texts not
\* yet flushed included, whatever calls of setCodeMode, append, appendPre,
\* appendPost, flush and endStatement came before.
C27_ToStringPreThenStatements ==
    (/\ printer.ops # <<>>
     /\ printer.ops[Len(printer.ops)].op = "toString")
    => printer.out = flushed(printer, FALSE, 1, 1)
                     \o flushed(printer, TRUE, 1, 1)

\* a toString() with text pending in both regions, never flushed, the text
\* of the statement region given first
C27_Witness ==
    /\ printer.ops # <<>>
    /\ printer.ops[Len(printer.ops)].op = "toString"
    /\ \A k \in 1..(Len(printer.ops) - 1) :
          printer.ops[k].op \notin {"flush", "endStatement", "toString"}
    /\ \E i, j \in 1..Len(printer.out) :
          /\ i < j
          /\ printer.out[i][2] > printer.out[j][2]
          /\ ~printer.ops[printer.out[i][2]].isCode
          /\ printer.ops[printer.out[j][2]].isCode

(***************************************************************************)
(* Code generation: what generateCode and the print methods it calls do    *)
(* to the printer.  p.append(a, b, ..) is one text.                        *)
(***************************************************************************)
MaxPreInlines == 1
MaxSymbols == 1

printAppend(p) == append(logCall(p, "append"), nextText(p, "now"))

printEndStatement(p) ==
    endStatement(logCall(p, "endStatement"), nextText(p, "end"))

printFlush(p) == flush(logCall(p, "flush"))

printSetCodeMode(p, isCode) == setCodeMode(logCall(p, "setCodeMode"), isCode)

\* Printer.printArray of n nodes that each append a text: PreInline.print,
\* the statements of a body; also the loop of SymbolTable.print
RECURSIVE printArray(_, _)
printArray(p, n) ==
    IF n = 0 THEN p
    ELSE printArray(printEndStatement(printAppend(p)), n - 1)

\* Function.isMethod()
isMethod(type) == type # "method"

\* Function.print and Constructor.printBody, for a declaration without
\* pre-variables and block parameter whose body has nbody statements
functionPrint(p, type, nbody) ==
    LET p1 == IF ~isMethod(type) THEN printSetCodeMode(p, FALSE) ELSE p
        p2 == printAppend(p1)
        p3 == IF type = "constructor" THEN printEndStatement(p2)
              ELSE printFlush(p2)
        p4 == printAppend(printArray(p3, nbody))
    IN  IF ~isMethod(type) THEN printSetCodeMode(p4, TRUE) ELSE p4

\* FunctionTable.print
methodNamesPrint(p) == printEndStatement(printAppend(p))

\* generateNoSuchMethodStubs, n call names being in no class
RECURSIVE stubsOfClasses(_, _)
stubsOfClasses(p, n) ==
    IF n = 0 THEN p
    ELSE stubsOfClasses(printEndStatement(printAppend(p)), n - 1)

generateNoSuchMethodStubs(p, useMethodMissing, n) ==
    IF useMethodMissing THEN p
    ELSE stubsOfClasses(printEndStatement(printAppend(p)),
                        n * Cardinality(CoreClassNames))

\* Printer.appendExtensionClassStmts(name, stmts)
RECURSIVE appendExtensionClassStmts(_, _, _)
appendExtensionClassStmts(p, stmts, nbody) ==
    IF stmts = <<>> THEN p
    ELSE LET fun == Head(stmts)
             p1 == IF fun = "constructor" THEN functionPrint(p, fun, nbody)
                   ELSE functionPrint(printAppend(p), fun, nbody)
         IN  appendExtensionClassStmts(printEndStatement(p1), Tail(stmts),
                                       nbody)

\* the loop of generatePreCode over CORE_CLASSES
RECURSIVE extensionClasses(_, _, _, _)
extensionClasses(p, n, stmts, nbody) ==
    IF n = 0 THEN p
    ELSE extensionClasses(appendExtensionClassStmts(p, stmts, nbody),
                          n - 1, stmts, nbody)

\* the statements of the root class: none when no class Object is
\* declared, else its methods and constructors
RootStmts ==
    UNION {[1..n -> {"method", "constructor"}] : n \in 0..MaxFuns}

\* generateCode: new Printer(), printer.setCodeMode(false)
GenerateCodeBegin(hasRoot, stmts, nbody, names, symbols, inlines, hint) ==
    /\ gen.pc = "idle"
    /\ printer' = printSetCodeMode(NewPrinter, FALSE)
    /\ gen' = [pc |-> "methodNames", hasRoot |-> hasRoot, stmts |-> stmts,
               nbody |-> nbody, names |-> names, symbols |-> symbols,
               inlines |-> inlines, useMethodMissing |-> hint]
    /\ UNCHANGED <<validatorVars, search, expr>>

\* generatePreCode: this.methodNames.print(p)
GenerateMethodNames ==
    /\ gen.pc = "methodNames"
    /\ printer' = methodNamesPrint(printer)
    /\ gen' = [gen EXCEPT !.pc = "symbols"]
    /\ UNCHANGED <<validatorVars, search, expr>>

\* generatePreCode: this.symbols.print(p)
GenerateSymbols ==
    /\ gen.pc = "symbols"
    /\ printer' = printArray(printer, gen.symbols)
    /\ gen' = [gen EXCEPT !.pc = "preInlines"]
    /\ UNCHANGED <<validatorVars, search, expr>>

\* generatePreCode: p.printArray(this.preInlines)
GeneratePreInlines ==
    /\ gen.pc = "preInlines"
    /\ printer' = printArray(printer, gen.inlines)
    /\ gen' = [gen EXCEPT !.pc = "stubs"]
    /\ UNCHANGED <<validatorVars, search, expr>>

\* generatePreCode: this.generateNoSuchMethodStubs(p)
GenerateNoSuchMethodStubs ==
    /\ gen.pc = "stubs"
    /\ printer' = generateNoSuchMethodStubs(printer, gen.useMethodMissing,
                                            gen.names)
    /\ gen' = [gen EXCEPT !.pc = "rootClass"]
    /\ UNCHANGED <<validatorVars, search, expr>>

\* generatePreCode: the statements of the root class, for each core class
GenerateExtensionClasses ==
    /\ gen.pc = "rootClass"
    /\ printer' = IF gen.hasRoot
                  THEN extensionClasses(printer, Cardinality(CoreClassNames),
                                        gen.stmts, gen.nbody)
                  ELSE printer
    /\ gen' = [gen EXCEPT !.pc = "preCodeDone"]
    /\ UNCHANGED <<validatorVars, search, expr>>

\* generateCode: printer.setCodeMode(true) and the programs, each printing
\* a statement
GeneratePrograms ==
    /\ gen.pc = "preCodeDone"
    /\ printer' = printArray(printSetCodeMode(printer, TRUE), 1)
    /\ gen' = [gen EXCEPT !.pc = "programs"]
    /\ UNCHANGED <<validatorVars, search, expr>>

\* generateCode: return printer.toString()
GenerateCodeReturns ==
    /\ gen.pc = "programs"
    /\ printer' = toString(logCall(printer, "toString"))
    /\ gen' = [gen EXCEPT !.pc = "done"]
    /\ UNCHANGED <<validatorVars, search, expr>>

NextGenerate ==
    \/ \E hasRoot \in BOOLEAN, stmts \in RootStmts, nbody \in 0..1,
          names \in 0..MaxFuns, symbols \in 0..MaxSymbols,
          inlines \in 0..MaxPreInlines, hint \in BOOLEAN :
          /\ ~hasRoot => stmts = <<>>
          /\ GenerateCodeBegin(hasRoot, stmts, nbody, names, symbols,
                               inlines, hint)
    \/ GenerateMethodNames
    \/ GenerateSymbols
    \/ GeneratePreInlines
    \/ GenerateNoSuchMethodStubs
    \/ GenerateExtensionClasses
    \/ GeneratePrograms
    \/ GenerateCodeReturns

SpecGenerate == Init /\ [][NextGenerate]_vvars

\* C28: from the first call to the return of generatePreCode the printer is
\* in pre-code mode, and nothing that generatePreCode prints has reached the
\* statement region: its array is empty and its statement has no text
\* pending.
C28_PreCodeStaysInPreRegion ==
    gen.pc \in {"methodNames", "symbols", "preInlines", "stubs", "rootClass",
                "preCodeDone"}
    => /\ ~printer.isCode
       /\ printer.stmts = <<>>
       /\ printer.currentStmt = newPrinterStatement

(***************************************************************************)
(* Expressions of binary operators.  The nodes of an expression are kept   *)
(* in a sequence; a reference is an index into it, 0 being null.  Operands *)
(* are nodes that are no BalancingExpr.                                    *)
(***************************************************************************)
MaxChain == 3
MaxPrecedence == 3

OperandNames == <<"a", "b", "c", "d", "e", "f">>
OpNames == <<"op1", "op2", "op3", "op4", "op5">>

Operand(name) ==
    [kind |-> "operand", strOp |-> name, left |-> 0, right |-> 0,
     precedence |-> 0, isResultBool |-> FALSE, balanceDone |-> FALSE,
     proxyExpr |-> 0]

\* new Op(left, right, strOp, isResultBool, precedence)
Op(left, right, strOp, isResultBool, precedence) ==
    [kind |-> "op", strOp |-> strOp, left |-> left, right |-> right,
     precedence |-> precedence, isResultBool |-> isResultBool,
     balanceDone |-> FALSE, proxyExpr |-> 0]

\* a op1 (b op2 (c op3 d)) as the parser builds it: the operands are the
\* nodes 1..n+1, operator i is node n+1+i, the root is operator 1
chainNodes(precs, isResultBool) ==
    LET n == Len(precs)
    IN  [i \in 1..(2 * n + 1) |->
            IF i <= n + 1 THEN Operand(OperandNames[i])
            ELSE LET k == i - (n + 1)
                 IN  Op(k, IF k = n THEN n + 1 ELSE i + 1, OpNames[k],
                        isResultBool, precs[k])]

\* x instanceof BalancingExpr
isBalancingExpr(h, x) == x # 0 /\ h[x].kind = "op"

\* Op.performBalanceSwap on node y: the nodes afterwards and what is
\* returned
RECURSIVE performBalanceSwap(_, _, _, _)
performBalanceSwap(h, y, newLeft, precedence) ==
    LET left == h[y].left
    IN  IF isBalancingExpr(h, left)
        THEN IF h[left].precedence <= precedence
             THEN [h |-> [h EXCEPT ![y].left = newLeft], r |-> left]
             ELSE performBalanceSwap(h, left, newLeft, precedence)
        ELSE [h |-> [h EXCEPT ![y].left = newLeft], r |-> left]

\* BalancingExpr.rebalance and Op.onRebalance on node x: the nodes
\* afterwards and what is returned.  util.clone(this) is a new node with
\* the fields of x.
RECURSIVE rebalance(_, _)
RECURSIVE onRebalance(_, _)
onRebalance(h, x) ==
    LET right == h[x].right
    IN  IF isBalancingExpr(h, right)
        THEN LET rb == rebalance(h, right)
                 intPrecedence == rb.h[x].precedence
             IN  IF isBalancingExpr(rb.h, rb.r)
                    /\ rb.h[rb.r].precedence > intPrecedence
                 THEN LET copy == Len(rb.h) + 1
                          sw == performBalanceSwap(Append(rb.h, rb.h[x]),
                                                   rb.r, copy, intPrecedence)
                      IN  [h |-> [sw.h EXCEPT ![copy].right = sw.r],
                           r |-> rb.r]
                 ELSE [h |-> rb.h, r |-> x]
        ELSE [h |-> h, r |-> x]

rebalance(h, x) ==
    LET on == onRebalance([h EXCEPT ![x].balanceDone = TRUE], x)
    IN  IF on.r # x
        THEN [h |-> [on.h EXCEPT ![x].proxyExpr = on.r], r |-> x]
        ELSE [h |-> on.h, r |-> x]

\* BalancingExpr.isBalanced: the nodes afterwards; newExpr.validate(v) is
\* not reached, rebalance() returning this
isBalanced(h, x) ==
    IF h[x].balanceDone THEN [h |-> h, r |-> TRUE]
    ELSE LET rb == rebalance(h, x)
         IN  [h |-> rb.h, r |-> rb.r = x]

\* Op.validate on node x: the nodes afterwards
RECURSIVE opValidate(_, _)
opValidate(h, x) ==
    IF ~isBalancingExpr(h, x) THEN h
    ELSE LET b == isBalanced(h, x)
         IN  IF b.r
             THEN LET h1 == opValidate(b.h, b.h[x].right)
                  IN  opValidate(h1, h1[x].left)
             ELSE b.h

\* Op.print on node x: the texts appended
RECURSIVE opPrint(_, _, _)
opPrint(h, x, bracket) ==
    IF ~isBalancingExpr(h, x) THEN <<h[x].strOp>>
    ELSE (IF bracket THEN <<"((">> ELSE <<"(">>)
         \o opPrint(h, h[x].left, bracket)
         \o (IF bracket THEN <<")">> ELSE <<>>)
         \o <<h[x].strOp>>
         \o (IF bracket THEN <<"(">> ELSE <<>>)
         \o opPrint(h, h[x].right, bracket)
         \o (IF bracket THEN <<"))">> ELSE <<")">>)

\* BalancingExpr.printAsCondition on node x, which Op does not override,
\* with Expr.printAsCondition and Syntax.printAsCondition: the texts
\* appended
RECURSIVE printAsCondition(_, _, _)
printAsCondition(h, x, bracket) ==
    IF h[x].proxyExpr # 0 THEN printAsCondition(h, h[x].proxyExpr, bracket)
    ELSE IF h[x].isResultBool THEN opPrint(h, x, bracket)
         ELSE <<"((t=">> \o opPrint(h, x, bracket)
              \o <<")!==null&&t!==false)">>

printBy(h, x, how, bracket) ==
    IF how = "print" THEN opPrint(h, x, bracket)
    ELSE printAsCondition(h, x, bracket)

\* the parser hands over a chain of operators of the precedences precs
ExprParse(precs, isResultBool) ==
    /\ expr.pc = "none"
    /\ expr' = [pc |-> "parsed", precs |-> precs,
                nodes |-> chainNodes(precs, isResultBool),
                root |-> Len(precs) + 2, passes |-> 0,
                how |-> "none", bracket |-> FALSE, text |-> <<>>]
    /\ UNCHANGED <<validatorVars, search, printer, gen>>

\* a validation pass reaches the root: root.validate(v)
ExprValidate ==
    /\ expr.pc \in {"parsed", "validated"}
    /\ expr.passes < 2
    /\ expr' = [expr EXCEPT !.pc = "validated",
                            !.nodes = opValidate(@, expr.root),
                            !.passes = @ + 1]
    /\ UNCHANGED <<validatorVars, search, printer, gen>>

\* the parent of the expression prints it: root.print(p) or
\* root.printAsCondition(p)
ExprPrint(how, bracket) ==
    /\ expr.pc = "validated"
    /\ expr' = [expr EXCEPT !.pc = "printed", !.how = how,
                            !.bracket = bracket,
                            !.text = printBy(expr.nodes, expr.root, how,
                                             bracket)]
    /\ UNCHANGED <<validatorVars, search, printer, gen>>

NextExpr ==
    \/ \E n \in 1..MaxChain :
          \E precs \in [1..n -> 1..MaxPrecedence], isResultBool \in BOOLEAN :
              ExprParse(precs, isResultBool)
    \/ ExprValidate
    \/ \E how \in {"print", "printAsCondition"}, bracket \in BOOLEAN :
          ExprPrint(how, bracket)

SpecExpr == Init /\ [][NextExpr]_vvars

\* the operator nodes that Op.print on node x visits, each with the way
\* to it from x
RECURSIVE printedOps(_, _, _)
printedOps(h, x, path) ==
    IF ~isBalancingExpr(h, x) THEN {}
    ELSE {[path |-> path, strOp |-> h[x].strOp]}
         \cup printedOps(h, h[x].left, Append(path, "left"))
         \cup printedOps(h, h[x].right, Append(path, "right"))

\* C29: once the root of a right-nested chain of operators has been
\* validated, in the tree that printing the expression walks, whenever
\* operator i has a smaller precedence number than operator i+1 (binds
\* tighter), every node of operator i lies in the left subtree of a node of
\* operator i+1.
C29_TighterBelowLooser ==
    expr.pc \in {"validated", "printed"}
    => \A i \in 1..(Len(expr.precs) - 1) :
           expr.precs[i] < expr.precs[i + 1]
           => LET ops == printedOps(expr.nodes, expr.root, <<>>)
              IN  \A o \in ops :
                      o.strOp = OpNames[i]
                      => \E q \in ops :
                             /\ q.strOp = OpNames[i + 1]
                             /\ startsWith(o.path, Append(q.path, "left"))

\* C30: when a rebalance has replaced the root, what print or
\* printAsCondition called on the root appends is what the same call on
\* the node that replaced it appends.
C30_ProxyForwards ==
    (expr.pc = "printed" /\ expr.nodes[expr.root].proxyExpr # 0)
    => expr.text = printBy(expr.nodes, expr.nodes[expr.root].proxyExpr,
                           expr.how, expr.bracket)

\* C40 (SpecSearch): the diagnostic of searchMissingFunAndError for a called
\* name is of the kind that it is for every called name with the same
\* lower-case form, searched in the same table of functions.
C40_KindDependsOnLowerCase ==
    search.op = "searchMissingFunAndError"
    => \A other \in CalledNames :
           toLowerCase(other) = toLowerCase(search.name)
           => search.kind
                = foundKind(other,
                            searchMissingFunWithName(other, search.tables[1]))

\* the operands and operators of a text, in order
operandsAndOperators(text) ==
    SelectSeq(text, LAMBDA t : t \in Range(OperandNames) \cup Range(OpNames))

\* a op1 b op2 c ..: the operands and operators of the chain as parsed
parsedSequence(n) ==
    [i \in 1..(2 * n + 1) |->
        IF i % 2 = 1 THEN OperandNames[(i + 1) \div 2] ELSE OpNames[i \div 2]]

\* C37 (SpecExpr): what printing the validated expression through its root
\* appends has the operands and operators of the parsed chain, in the order
\* of the parsed chain, each of them once.
C37_OperandsKept ==
    expr.pc = "printed"
    => operandsAndOperators(expr.text) = parsedSequence(Len(expr.precs))

\* Function.isConstructor() and Function.isFunction()
isConstructor(type) == type = "constructor"

isFunction(type) == type = "function"

\* C38: of a function declaration that is being validated exactly one of
\* isFunction(), isMethod() and isConstructor() is true, and isMethod() is
\* true exactly when it is validated inside a class and is no constructor.
C38_KindsExclusive ==
    currentFun # NoFun
    => /\ Cardinality({k \in {"function", "method", "constructor"} :
                          \/ k = "function" /\ isFunction(currentFun.type)
                          \/ k = "method" /\ isMethod(currentFun.type)
                          \/ k = "constructor"
                             /\ isConstructor(currentFun.type)}) = 1
       /\ isMethod(currentFun.type)
            <=> (isInsideClass /\ ~isConstructor(currentFun.type))

(***************************************************************************)
(* SpecStack: the scope stack under any sequence of pushScope,             *)
(* pushFunScope, pushBlockScope and popScope that never pops more frames   *)
(* than were pushed.  pushFunScope throws when a function is current,      *)
(* before it changes anything.                                             *)
(***************************************************************************)
MaxFrames == 4

stackRest == <<pc, ctx, nsub, errors, programs, funs, ev, lastErrorName,
               bindVars, finVars, symVars, globVars, unitVars>>

PushScope ==
    /\ Len(vars) < MaxFrames
    /\ SetScope(pushScope(Scope))
    /\ UNCHANGED stackRest

PushFunScope(fun) ==
    /\ Len(vars) < MaxFrames
    /\ currentFun = NoFun
    /\ SetScope(pushFunScope(Scope, fun))
    /\ UNCHANGED stackRest

PushBlockScope ==
    /\ Len(vars) < MaxFrames
    /\ SetScope(pushBlockScope(Scope))
    /\ UNCHANGED stackRest

PopScope ==
    /\ Len(vars) > 1
    /\ Len(funVars) < MaxFrames
    /\ SetScope(popScope(Scope))
    /\ UNCHANGED stackRest

NextStack ==
    \/ PushScope
    \/ \E f \in FunNames : PushFunScope([name |-> f, type |-> "function"])
    \/ PushBlockScope
    \/ PopScope

SpecStack == Init /\ [][NextStack]_vvars

\* C36 (SpecStack): the stack of frames and the stack of block flags have
\* the same length, which is at least 1; funCount is 0 exactly when no
\* function is current and at least 1 otherwise; and from the entry of a
\* function to its exit the number of frames less funCount stays the
\* number of frames there were when the function was entered.
C36_ScopeStackInvariants ==
    /\ [](/\ Len(vars) = Len(isBlockArr)
          /\ Len(vars) >= 1
          /\ (funCount = 0) <=> ~isInsideFun
          /\ isInsideFun => funCount >= 1)
    /\ [][/\ (~isInsideFun /\ isInsideFun')
             => Len(vars') - funCount' = Len(vars)
          /\ (isInsideFun /\ isInsideFun')
             => Len(vars') - funCount' = Len(vars) - funCount
          /\ (isInsideFun /\ ~isInsideFun')
             => Len(vars') = Len(vars) - funCount]_vvars

\* inside a function that was entered above a frame pushed before it, in a
\* block, after a frame of the function has been popped
C36_Witness ==
    /\ isInsideFun
    /\ Len(vars) = 4
    /\ funCount = 2
    /\ ~frameInFun[2]
    /\ isBlockArr[4]
    /\ funVars # <<>>

(***************************************************************************)
(* SpecNested: programs of classes, functions, constructors, admin         *)
(* methods and method generators, declared inside one another.             *)
(***************************************************************************)
GeneratedNames == {"getx"}

\* AdminMethod.validate up to the body: isAdminMode is false, so
\* ensureAdminMode reports; inside a class the node is then validated as a
\* Function, outside of one ensureInClass reports and nothing more is done.
\* The diagnostic of ensureAdminMode comes on top of those MaxErrors bounds,
\* and the class the admin method is declared in on top of the nodes
\* MaxDepth bounds.
AdminMethodValidate(f) ==
    /\ pc = "validating"
    /\ Len(ctx) < MaxDepth + 1
    /\ LET e0 == parseError(errors, "adminMethodWithoutRights", "")
       IN  IF ~isInsideClass
           THEN /\ Len(e0) <= MaxErrors
                /\ errors' = parseError(e0, "adminMethodOutsideClass", "")
                /\ UNCHANGED <<ctx, classes>>
                /\ UNCHANGED scopeVars
           ELSE LET fun == [name |-> f, type |-> "method"]
                    e1 == IF isInsideFun
                          THEN parseError(e0, "funWithinFun", "")
                          ELSE IF isInsideBlock
                               THEN parseError(e0, "funWithinBlock", "")
                               ELSE e0
                    isOutFun == ~isInsideFun
                    e2 == IF isOutFun THEN defineFunErrors(e1, f) ELSE e1
                    S1 == IF isOutFun THEN pushFunScope(Scope, fun)
                          ELSE Scope
                IN  /\ Len(e2) <= MaxErrors + 1
                    /\ errors' = e2
                    /\ classes' = IF isOutFun
                                  THEN [classes EXCEPT
                                          ![currentClass].funs = @ \cup {f}]
                                  ELSE classes
                    /\ SetScope(S1)
                    /\ ctx' = Append(ctx, IF isOutFun THEN "fun" ELSE "nfun")
    /\ ev' = Ev("adminMethod", f, "")
    /\ UNCHANGED <<pc, nsub, programs, funs>>
    /\ UNCHANGED <<classKeys, currentClass, currentClassV, calls,
                   usedFunsStack, lateKeys, lateFuns, endValidateCallbacks>>
    /\ UNCHANGED finVars
    /\ UNCHANGED symVars
    /\ UNCHANGED globVars
    /\ UNCHANGED unitVars
    /\ lastErrorName' = lastNameOf(errors, errors', lastErrorName)

\* FunctionCall.validate of a modifier (get, set, ...) in the definition of
\* a class, with no block: FunctionGenerator.validate for the method g it
\* generates.  A method g of the class is a name clash and ends the node;
\* otherwise g is defined, its scope is pushed and popped around
\* validateInside, which leaves no diagnostic there, and onEndValidate is
\* registered.
FunctionGeneratorValidate(g) ==
    /\ pc = "validating"
    /\ isInsideClassDefinition
    /\ IF g \in classes[currentClass].funs
       THEN /\ Len(errors) < MaxErrors
            /\ errors' = parseError(errors, "modifierClash", g)
            /\ UNCHANGED <<classes, endValidateCallbacks>>
            /\ UNCHANGED scopeVars
       ELSE LET gen0 == [name |-> g, type |-> "function"]
            IN  /\ Len(endValidateCallbacks) < MaxCallbacks
                /\ errors' = defineFunErrors(errors, g)
                /\ classes' = [classes EXCEPT
                                  ![currentClass].funs = @ \cup {g}]
                /\ SetScope(popScope(pushFunScope(Scope, gen0)))
                /\ endValidateCallbacks' =
                       Append(endValidateCallbacks,
                              [node |-> "generator", cls |-> currentClass,
                               n |-> 0, sym |-> Sym])
    /\ ev' = NoEv
    /\ UNCHANGED <<pc, ctx, nsub, programs, funs>>
    /\ UNCHANGED <<classKeys, currentClass, currentClassV, calls,
                   usedFunsStack, lateKeys, lateFuns>>
    /\ UNCHANGED finVars
    /\ UNCHANGED symVars
    /\ UNCHANGED globVars
    /\ UNCHANGED unitVars
    /\ lastErrorName' = lastNameOf(errors, errors', lastErrorName)

NestedNodes ==
    \/ ClassValidate("A", NoSuper)
    \/ ClassEnd
    \/ \E f \in FunNames : FunctionValidate(f, {})
    \/ FunctionEnd
    \/ ConstructorValidate({})
    \/ AdminMethodValidate("m")
    \/ \E g \in GeneratedNames : FunctionGeneratorValidate(g)
    \/ FunctionBlockValidate({})
    \/ FunctionBlockEnd

NextNested ==
    \/ nsub = 0 /\ ValidateProgram("a.q")
    \/ ProgramReturns
    \/ NestedNodes

SpecNested == Init /\ [][NextNested]_vvars

\* C33 (SpecNested): a function, constructor or admin method declared while
\* a function is current leaves a "function within function" diagnostic
\* and keeps the current function and funCount as they are; and no step
\* taken while a function is current makes another function the current
\* one, so no node calls pushFunScope there.
C33_NestedDeclarationsRejected ==
    [][/\ (/\ currentFun # NoFun
           /\ Len(ctx') > Len(ctx)
           /\ ctx'[Len(ctx')] \in {"fun", "nfun"})
          => /\ ctx'[Len(ctx')] = "nfun"
             /\ \E i \in (Len(errors) + 1)..Len(errors') :
                   errors'[i].kind = "funWithinFun"
             /\ currentFun' = currentFun
             /\ funCount' = funCount
       /\ currentFun # NoFun => currentFun' \in {currentFun, NoFun}
       /\ (currentFun # NoFun /\ funCount' > funCount)
          => ctx' = Append(ctx, "block")]_vvars

\* in the body of a declaration nested in the function f, with the
\* diagnostic of the nesting recorded
C33_Witness ==
    /\ ctx = <<"fun", "nfun">>
    /\ currentFun = [name |-> "f", type |-> "function"]
    /\ funCount = 1
    /\ \E i \in 1..Len(errors) : errors[i].kind = "funWithinFun"

(***************************************************************************)
(* SpecSession: the programs of SpecNested submitted one after another to  *)
(* one validator, any node of which may throw.                             *)
(***************************************************************************)
NextSession ==
    \/ ValidateProgram("a.q")
    \/ ProgramReturns
    \/ NodeThrows
    \/ NestedNodes

SpecSession == Init /\ [][NextSession]_vvars

\* the validator is at top level: the frame of the constructor alone, no
\* function and no class current
atTopLevel ==
    /\ Len(vars) = 1
    /\ Len(isBlockArr) = 1
    /\ funCount = 0
    /\ currentFun = NoFun
    /\ currentClass = NoClass

\* validate(program) has returned and none of the program's nodes threw
returnedWithoutThrow ==
    /\ pc = "idle"
    /\ programs # <<>>
    /\ programs[Len(programs)] = nsub

\* C34 (SpecSession): when validate(program) has returned for a program
\* none of whose nodes threw, the validator is at top level: one frame,
\* funCount 0, no current function and no current class.
C34_BalancedScopes == returnedWithoutThrow => atTopLevel

\* C35 (SpecSession): when validate(program) has returned through its
\* catch, the validator is at top level: one frame, funCount 0, no current
\* function and no current class.
C35_CleanAfterThrow == ev.op = "nodeThrows" => atTopLevel

\* Validator.methodNames, the function registry: defineFun adds a call
\* name to it in the branch that adds the declaration to the functions of
\* the current class, and in no other; FunctionTable has no removal.
methodNames == UNION {classes[c].funs : c \in DOMAIN classes}

\* C32 (SpecNested): the call name of every function defined through
\* defineFun outside a class is in the function registry.
C32_RegistryComplete == funs \subseteq methodNames

\* the diagnostics of the called-methods loop for the call name cn
undefinedMethodDiagnostics(cn) ==
    {i \in 1..Len(errors) :
        errors[i].kind = "methodNotInAnyClass" /\ errors[i].ref = cn}

\* C39 (SpecFin): when finalizeProgram has returned, a call name that was
\* called on a receiver other than this and that no class declares has
\* exactly one diagnostic, at the call site kept last for it, and a call
\* name that some class declares has none.
C39_OncePerCallName ==
    pc = "finalized"
    => \A cn \in MethodNames :
          LET sites == {i \in 1..Len(calledMethods) :
                           calledMethods[i].cn = cn}
              declared == \E j \in 1..Len(classKeys) :
                              cn \in classes[classKeys[j]].funs
          IN  IF sites # {} /\ ~declared
              THEN /\ Cardinality(undefinedMethodDiagnostics(cn)) = 1
                   /\ \A i \in undefinedMethodDiagnostics(cn), s \in sites :
                         errors[i].line = calledMethods[s].sym.line
              ELSE undefinedMethodDiagnostics(cn) = {}

(***************************************************************************)
(* SpecAdmin: programs with the constructs that need admin rights, in a    *)
(* session that was not given them.                                        *)
(***************************************************************************)
\* Validator.isAdminMode as the constructor leaves it
isAdminMode == FALSE

\* Validator.ensureAdminMode
ensureAdminMode(errs, kind) ==
    IF ~isAdminMode THEN parseError(errs, kind, "") ELSE errs

PrivilegedNodes == {"Inline", "PreInline", "NewJSInstance", "JSVariable"}

\* Where a privileged node stands:
\*   stmt             a statement of its own
\*   op               an operand of an Op
\*   instanceof       the left operand of IsInstanceOf(node, Variable)
\*   instanceofRight  the right operand of IsInstanceOf(literal, node)
\* PreInline is no expression, and of the four only JSVariable is a
\* Variable.
PrivilegedShapes(node) ==
    CASE node = "PreInline" -> {"stmt"}
      [] node = "JSVariable" -> {"stmt", "op", "instanceof", "instanceofRight"}
      [] OTHER -> {"stmt", "op", "instanceof"}

\* The diagnostics left by validating the privileged node in the given
\* shape.  IsInstanceOf is no JS literal when it is constructed, since
\* JSVariable sets that flag in validate only, and with a Variable on its
\* right its validate does nothing at all.  NewJSInstance has no parameters
\* and no block here.
privilegedErrors(errs, S, node, shape) ==
    IF shape \in {"instanceof", "instanceofRight"} THEN errs
    ELSE CASE node = "Inline" -> ensureAdminMode(errs, "inlineWithoutAdmin")
           [] node = "PreInline" ->
                 ensureAdminMode(errs, "preInlineWithoutAdmin")
           [] node = "NewJSInstance" ->
                 ensureAdminMode(errs, "jsInstanceWithoutAdmin")
           [] node = "JSVariable" ->
                 IF isInsideBlockIn(S)
                 THEN parseError(errs, "jsVariableAsBlockParameter", "")
                 ELSE ensureAdminMode(errs, "jsVariableWithoutAdmin")

\* Inline.validate, PreInline.validate, NewJSInstance.validate or
\* JSVariable.validate, reached or not through the node around it
PrivilegedValidate(node, shape) ==
    /\ pc = "validating"
    /\ LET e == privilegedErrors(errors, Scope, node, shape)
       IN  /\ Len(e) <= MaxErrors
           /\ errors' = e
    /\ ev' = Ev("privileged", node, shape)
    /\ UNCHANGED <<pc, ctx, nsub, programs, funs>>
    /\ UNCHANGED scopeVars
    /\ UNCHANGED bindVars
    /\ UNCHANGED finVars
    /\ UNCHANGED symVars
    /\ UNCHANGED globVars
    /\ UNCHANGED unitVars
    /\ lastErrorName' = lastNameOf(errors, errors', lastErrorName)

AdminNodes ==
    \/ \E node \in PrivilegedNodes :
          \E shape \in PrivilegedShapes(node) :
             PrivilegedValidate(node, shape)
    \/ ctx = <<>> /\ ClassValidate("A", NoSuper)
    \/ \E c \in CoreClassNames :
          ctx = <<>> /\ ExtensionClassValidate(c, NoSuper)
    \/ ClassEnd
    \/ isInsideClassDefinition /\ ConstructorValidate({})
    \/ AdminMethodValidate("m")
    \/ FunctionValidate("f", {})
    \/ FunctionEnd
    \/ FunctionBlockValidate({})
    \/ FunctionBlockEnd

NextAdmin ==
    \/ ValidateProgram("a.q")
    \/ ProgramReturns
    \/ AdminNodes

SpecAdmin == Init /\ [][NextAdmin]_vvars

\* C31 (SpecAdmin): with isAdminMode false, the validation of an Inline, a
\* PreInline, a NewJSInstance or a JS variable, of an admin method and of
\* a constructor declared for a core class each adds a diagnostic.
C31_PrivilegedConstructsReported ==
    [][(\/ ev'.op = "privileged"
        \/ ev'.op = "adminMethod"
        \/ /\ ev'.op = "addNew"
           /\ ev'.a \in CoreClassNames
           /\ Len(ctx') > Len(ctx))
       => Len(errors') > Len(errors)]_vvars

====
